---------------------------- MODULE Spec2Model ----------------------------
(***************************************************************************)
(* A model of Promptly's prompt analysis core (src/core/prompt_analyzer.py)*)
(* and of the collaborators it calls (src/core/ai_service.py).             *)
(*                                                                         *)
(* Text is carried as TLA+ strings and inspected character by character,   *)
(* the way the Python code does with str.split, str.lower, the in          *)
(* operator and the re module.  Numbers are carried in thousandths         *)
(* (7.2 is 7200, 0.7 is 700), so that every literal of the code and every  *)
(* decimal with at most three places is an integer.                        *)
(***************************************************************************)
EXTENDS Integers, Sequences, FiniteSets, TLC

VARIABLES
    pc,            \* position of the call: "idle", "ATTEMPT_EXTERNAL", "done"
    prompt,        \* the prompt text handed to the call
    external,      \* what the external collaborator did ([kind, text])
    parsed,        \* what json.loads made of the cleaned response text
    validation,    \* how _validate_ai_response ended, and its argument then
    plausible,     \* what _is_valid_ai_analysis returned
    path,          \* branch of the arbiter: "none", "EXTERNAL", "FALLBACK"
    ai_analysis,   \* the local variable ai_analysis at line 99
    result,        \* the AnalysisResult returned, or the exception raised
    cache_store,   \* st.session_state.cache_store: key -> [data, timestamp]
    evaluation_history, \* st.session_state.evaluation_history
    now,           \* the clock read by time.time(), in hours
    clock,         \* the clock read by time.time(), in seconds
    service,       \* the number of GeminiService instances made so far
    last_request_time, \* last_request_time of every instance made
    sent,          \* the requests sent to Gemini, in the order sent
    requests       \* the generate_response calls made, in the order called

\* the GeminiService in use and the requests sent
service_vars == <<clock, service, last_request_time, sent, requests>>

\* the state around the analyzer: the session of the app and the service
app_vars == <<cache_store, evaluation_history, now, service_vars>>

vars ==
    <<pc, prompt, external, parsed, validation, plausible, path, ai_analysis,
      result, cache_store, evaluation_history, now, clock, service,
      last_request_time, sent, requests>>

\* time.time() is far from 0, the first value of last_request_time
ClockStart == 10

\* no service has been made, nothing has been sent
ServiceStart ==
    /\ clock = ClockStart
    /\ service = 0
    /\ last_request_time = <<>>
    /\ sent = <<>>
    /\ requests = <<>>

\* a session that has just begun: nothing cached, nothing evaluated
SessionStart ==
    /\ cache_store = <<>>
    /\ evaluation_history = <<>>
    /\ now = 0
    /\ ServiceStart

(***************************************************************************)
(* Text primitives                                                         *)
(***************************************************************************)
Min(a, b) == IF a < b THEN a ELSE b
Max(a, b) == IF a > b THEN a ELSE b

CharAt(t, i) == SubSeq(t, i, i)

\* str.isspace for the characters of the model's alphabet
IsSpace(c) == c \in {" ", "\n", "\t", "\r"}

\* \d of the re module, ASCII digits
IsDigit(c) == c \in {"0", "1", "2", "3", "4", "5", "6", "7", "8", "9"}

UpperCase == "ABCDEFGHIJKLMNOPQRSTUVWXYZ"
LowerCase == "abcdefghijklmnopqrstuvwxyz"
LowerMap == [c \in {CharAt(UpperCase, i) : i \in 1..26} |->
                CharAt(LowerCase, CHOOSE i \in 1..26 : CharAt(UpperCase, i) = c)]

LowerChar(c) == IF c \in DOMAIN LowerMap THEN LowerMap[c] ELSE c

\* the characters a..b of t in lower case (computed by halves)
RECURSIVE LowerRange(_, _, _)
LowerRange(t, a, b) ==
    IF a > b THEN ""
    ELSE IF a = b THEN LowerChar(CharAt(t, a))
    ELSE LowerRange(t, a, (a + b) \div 2) \o LowerRange(t, (a + b) \div 2 + 1, b)

\* str.lower()
Lower(t) == LowerRange(t, 1, Len(t))

\* the `in` operator on two strings: substring containment
Contains(t, p) ==
    \E i \in 1..(Len(t) - Len(p) + 1) : SubSeq(t, i, i + Len(p) - 1) = p

\* str.strip(): leading and trailing whitespace removed
Strip(t) ==
    LET keep == {i \in 1..Len(t) : ~IsSpace(CharAt(t, i))}
    IN  IF keep = {} THEN ""
        ELSE SubSeq(t, CHOOSE i \in keep : \A j \in keep : i <= j,
                       CHOOSE i \in keep : \A j \in keep : i >= j)

\* len(prompt.split()): the number of maximal runs of non-whitespace
WordCount(t) ==
    Cardinality({i \in 1..Len(t) :
        /\ ~IsSpace(CharAt(t, i))
        /\ (i = 1 \/ IsSpace(CharAt(t, i - 1)))})

\* len(re.findall(r'\d+', prompt)): the number of maximal runs of digits
NumberCount(t) ==
    Cardinality({i \in 1..Len(t) :
        /\ IsDigit(CharAt(t, i))
        /\ (i = 1 \/ ~IsDigit(CharAt(t, i - 1)))})

IsTerminator(c) == c \in {".", "!", "?"}

\* len(re.split(r'[.!?]+', prompt.strip())): one more than the number of
\* maximal runs of sentence terminators in the stripped text
SentenceCount(t) ==
    LET s == Strip(t)
    IN  1 + Cardinality({i \in 1..Len(s) :
            /\ IsTerminator(CharAt(s, i))
            /\ (i = 1 \/ ~IsTerminator(CharAt(s, i - 1)))})

\* sum(1 for word in words if word in text): lexicon entries found in text
CountIn(words, text) ==
    Cardinality({i \in DOMAIN words : Contains(text, words[i])})

\* sum(1 for word in words if word.lower() in text)
CountLowerIn(words, text) ==
    Cardinality({i \in DOMAIN words : Contains(text, Lower(words[i]))})

\* any(word in text for word in words)
AnyIn(words, text) == \E i \in DOMAIN words : Contains(text, words[i])

(***************************************************************************)
(* Lexical feature scorers (thousandths)                                   *)
(***************************************************************************)
\* a scorer that returns its sum as it is
Unclamped(score) == score

\* a scale that begins at 0
ClampFromZero(score) == Max(0, Min(10000, score))

\* max(1.0, min(10.0, score))
Clamp(score) == Max(1000, Min(10000, score))

clarity_vague_words ==
    <<"thing", "stuff", "something", "anything", "maybe", "perhaps",
      "might", "kinda", "sorta">>
clarity_clear_words ==
    <<"create", "write", "analyze", "explain", "describe", "list",
      "compare", "summarize">>

_calculate_clarity_score(p) ==
    LET word_count == WordCount(p)
        low == Lower(p)
        base == IF word_count < 5 THEN 3000
                ELSE IF word_count < 15 THEN 5000
                ELSE IF word_count < 50 THEN 7000
                ELSE 8000
        vague_count == CountIn(clarity_vague_words, low)
        clear_count == CountIn(clarity_clear_words, low)
        question == IF Contains(p, "?") THEN 500 ELSE 0
    IN  Clamp(base - vague_count * 1000 + clear_count * 500 + question)

specificity_format_words ==
    <<"json", "csv", "markdown", "html", "pdf", "bullet points",
      "numbered list", "table", "report", "essay">>
specificity_domain_words ==
    <<"business", "technical", "academic", "marketing", "sales", "finance",
      "education", "health">>
specificity_vague_requests ==
    <<"help me", "can you", "please do", "make it good", "do something",
      "fix this">>

_calculate_specificity_score(p) ==
    LET word_count == WordCount(p)
        low == Lower(p)
        base == IF word_count < 10 THEN 3000
                ELSE IF word_count < 30 THEN 5000
                ELSE 7000
        numbers == NumberCount(p)
        format_count == CountLowerIn(specificity_format_words, low)
        domain_count == CountLowerIn(specificity_domain_words, low)
        vague_count == CountIn(specificity_vague_requests, low)
    IN  Clamp(base + Min(numbers * 800, 2000) + Min(format_count * 1000, 2000)
                   + Min(domain_count * 500, 1500) - vague_count * 1500)

context_words ==
    <<"background", "context", "situation", "purpose", "goal", "because",
      "since", "for", "I need", "I want">>
context_personal_words ==
    <<"I am", "my", "our", "we are", "company", "project", "team">>

_calculate_context_score(p) ==
    LET word_count == WordCount(p)
        low == Lower(p)
        base == IF word_count < 8 THEN 2000
                ELSE IF word_count < 20 THEN 4000
                ELSE IF word_count < 50 THEN 6000
                ELSE 8000
        context_count == CountLowerIn(context_words, low)
        personal_count == CountLowerIn(context_personal_words, low)
    IN  Clamp(base + Min(context_count * 800, 2000)
                   + Min(personal_count * 300, 1000))

constraint_format_instructions ==
    <<"format as", "write in", "use style", "include", "structure",
      "organize", "make it">>
constraint_length_specs ==
    <<"words", "characters", "pages", "paragraphs", "sentences",
      "bullet points", "brief", "detailed", "long", "short">>
constraint_style_specs ==
    <<"tone", "style", "formal", "casual", "professional", "friendly",
      "technical", "simple", "advanced">>
constraint_audience_specs ==
    <<"for", "audience", "beginner", "expert", "student", "client",
      "manager">>

_calculate_constraint_score(p) ==
    LET low == Lower(p)
        format_count == CountIn(constraint_format_instructions, low)
        length_count == CountIn(constraint_length_specs, low)
        style_count == CountIn(constraint_style_specs, low)
        audience_count == CountIn(constraint_audience_specs, low)
    IN  Clamp(4000 + Min(format_count * 1000, 3000)
                   + Min(length_count * 800, 2000)
                   + Min(style_count * 600, 2000)
                   + Min(audience_count * 500, 1000))

goal_action_words ==
    <<"create", "write", "analyze", "design", "develop", "build",
      "generate", "produce", "make", "explain", "describe">>
goal_outcome_words ==
    <<"result", "output", "deliverable", "final", "end goal", "objective",
      "want", "need">>
goal_intent_words ==
    <<"show", "tell", "find", "solve", "fix", "improve", "optimize",
      "compare">>
goal_unclear_words ==
    <<"somehow", "whatever", "anything", "something", "help", "please">>

\* The sum is computed in IEEE-754 doubles.  With exactly four unclear words
\* the penalty 4 * 0.8 evaluates to 3.2000000000000002, and a sum whose exact
\* value is 6.0 or 7.0 comes out one ulp lower (5.999999999999999,
\* 6.999999999999999), which decides the comparisons `goal < 6` and
\* `goal >= 7` of the feedback synthesizer.  It is carried here as one
\* thousandth lower.  No other sum of the five scorers lands on the wrong side
\* of 6, of 7 or of a rounding boundary.
GoalSum(unclear_count, exact) ==
    IF unclear_count = 4 /\ exact \in {6000, 7000} THEN exact - 1 ELSE exact

_calculate_goal_score(p) ==
    LET low == Lower(p)
        action_count == CountIn(goal_action_words, low)
        outcome_count == CountLowerIn(goal_outcome_words, low)
        intent_count == CountIn(goal_intent_words, low)
        unclear_count == CountIn(goal_unclear_words, low)
    IN  Clamp(GoalSum(unclear_count,
                      4000 + Min(action_count * 1000, 3000)
                           + Min(outcome_count * 800, 2000)
                           + Min(intent_count * 600, 1500)
                           - unclear_count * 800))

(***************************************************************************)
(* Python values: what json.loads yields and what the analyzer builds.     *)
(* A number n stands for n/1000; a dict keeps its items in insertion order.*)
(***************************************************************************)
None == [t |-> "null"]
Num(n) == [t |-> "num", n |-> n]
Str(s) == [t |-> "str", s |-> s]
Bool(b) == [t |-> "bool", b |-> b]
List(items) == [t |-> "list", items |-> items]
Dict(items) == [t |-> "dict", items |-> items]
Item(k, v) == [k |-> k, v |-> v]

\* a list of str from a sequence of strings
StrList(ss) == List([i \in DOMAIN ss |-> Str(ss[i])])

\* key in d, for a dict d
HasKey(d, key) == \E i \in DOMAIN d.items : d.items[i].k = key

\* d.get(key, default), for a dict d
Get(d, key, default) ==
    IF HasKey(d, key)
    THEN d.items[CHOOSE i \in DOMAIN d.items : d.items[i].k = key].v
    ELSE default

(***************************************************************************)
(* Feedback synthesizer                                                    *)
(***************************************************************************)
\* if cond: lst.append(s)
Opt(cond, s) == IF cond THEN <<s>> ELSE <<>>

\* lst[:5]
FirstFive(lst) == SubSeq(lst, 1, Min(5, Len(lst)))

_identify_strengths(p, clarity, specificity, context, constraints, goal) ==
    LET scored ==
            Opt(clarity >= 7000, "Clear and unambiguous language")
            \o Opt(specificity >= 7000, "Specific requirements and details provided")
            \o Opt(context >= 7000, "Sufficient background context")
            \o Opt(constraints >= 7000, "Well-defined formatting and style constraints")
            \o Opt(goal >= 7000, "Clear goal and desired outcome")
            \o Opt(WordCount(p) > 50, "Comprehensive and detailed prompt")
            \o Opt(AnyIn(<<"include", "format", "structure">>, Lower(p)),
                   "Good structural guidance provided")
        strengths == IF scored = <<>> THEN <<"Basic prompt structure in place">>
                     ELSE scored
    IN  FirstFive(strengths)

weakness_vague_words == <<"thing", "stuff", "good", "nice", "help">>

_identify_weaknesses(p, clarity, specificity, context, constraints, goal) ==
    LET scored ==
            Opt(clarity < 6000, "Language could be clearer and less ambiguous")
            \o Opt(specificity < 6000, "Needs more specific requirements and details")
            \o Opt(context < 6000, "Lacks sufficient background context")
            \o Opt(constraints < 6000, "Missing clear formatting and style guidelines")
            \o Opt(goal < 6000, "Desired outcome could be more clearly defined")
            \o Opt(WordCount(p) < 15, "Prompt is too brief and lacks detail")
            \o Opt(AnyIn(weakness_vague_words, Lower(p)),
                   "Contains vague language that could be more specific")
        weaknesses == IF scored = <<>>
                      THEN <<"Minor improvements possible in overall clarity">>
                      ELSE scored
    IN  FirstFive(weaknesses)

\* the if/elif chain of the loop body: the suggestion appended for one
\* weakness, if any
SuggestionFor(weakness) ==
    IF Contains(weakness, "clearer") \/ Contains(weakness, "ambiguous")
    THEN <<"Replace vague terms with specific, concrete language">>
    ELSE IF Contains(weakness, "specific") \/ Contains(weakness, "details")
    THEN <<"Add specific numbers, formats, or measurable criteria">>
    ELSE IF Contains(weakness, "context")
    THEN <<"Provide background information about your situation or goals">>
    ELSE IF Contains(weakness, "formatting") \/ Contains(weakness, "guidelines")
    THEN <<"Specify desired output format (length, style, structure)">>
    ELSE IF Contains(weakness, "outcome") \/ Contains(weakness, "goal")
    THEN <<"Clearly state what success looks like for this task">>
    ELSE IF Contains(weakness, "brief") \/ Contains(weakness, "detail")
    THEN <<"Expand the prompt with more context and requirements">>
    ELSE IF Contains(weakness, "vague")
    THEN <<"Replace general terms with specific, actionable language">>
    ELSE <<>>

RECURSIVE SuggestionsFrom(_, _)
SuggestionsFrom(weaknesses, i) ==
    IF i > Len(weaknesses) THEN <<>>
    ELSE SuggestionFor(weaknesses[i]) \o SuggestionsFrom(weaknesses, i + 1)

generic_suggestions ==
    <<"Consider adding more specific details about your requirements",
      "Include context about your intended audience or use case",
      "Specify the desired format and length of the output">>

\* the sequence without the entries that occurred before
RECURSIVE Distinct(_)
Distinct(lst) ==
    IF lst = <<>> THEN <<>>
    ELSE LET front == Distinct(SubSeq(lst, 1, Len(lst) - 1))
             last == lst[Len(lst)]
         IN  IF \E i \in DOMAIN front : front[i] = last THEN front
             ELSE Append(front, last)

\* suggestions of which every kind is given once
suggestions_distinct(p, weaknesses) ==
    LET specific == Distinct(SuggestionsFrom(weaknesses, 1))
        suggestions == IF specific = <<>> THEN generic_suggestions ELSE specific
    IN  FirstFive(suggestions)

_generate_suggestions(p, weaknesses) ==
    LET specific == SuggestionsFrom(weaknesses, 1)
        suggestions == IF specific = <<>> THEN generic_suggestions ELSE specific
    IN  FirstFive(suggestions)

\* the f-string template of lines 414-426 after the prompt
improve_template ==
    "\n\nPlease provide a comprehensive response that includes:\n"
    \o "- Clear explanations with specific examples\n"
    \o "- Structured format with headings or bullet points\n"
    \o "- Relevant context and background information\n"
    \o "- Actionable insights or recommendations\n"
    \o "- Sources or references where applicable\n"
    \o "\nTarget length: 200-500 words\n"
    \o "Tone: Professional and informative\n"

\* a length sentence that names no length word
improve_length_plain ==
    " Aim for a comprehensive response."

improve_format_sentence ==
    "\n\nPlease format your response with clear headings and structure."
improve_length_sentence ==
    " Aim for a comprehensive response of 300-500 words."

_improve_prompt(p, weaknesses) ==
    IF WordCount(p) < 15
    THEN Strip("\n" \o p \o improve_template)
    ELSE LET low == Lower(p)
             formatted == IF ~Contains(low, "format")
                          THEN p \o improve_format_sentence ELSE p
         IN  IF ~AnyIn(<<"words", "length", "brief", "detailed">>, low)
             THEN formatted \o improve_length_sentence
             ELSE formatted

(***************************************************************************)
(* Heuristic analyzer                                                      *)
(***************************************************************************)
\* round(x, 1) of a value given as the fraction num/den of thousandths:
\* the nearest multiple of 100, ties to the even tenth
RoundTenth(num, den) ==
    LET step == 100 * den
        q == num \div step
        r == num % step
    IN  IF 2 * r < step THEN q * 100
        ELSE IF 2 * r > step THEN (q + 1) * 100
        ELSE IF q % 2 = 0 THEN q * 100 ELSE (q + 1) * 100

\* round(score, 1)
Round1(score) == RoundTenth(score, 1)

\* the mean cut off after the first decimal
overall_truncated(clarity, specificity, context, constraints, goal) ==
    ((clarity + specificity + context + constraints + goal) \div 500) * 100

\* round((a + b + c + d + e) / 5, 1)
overall_of(clarity, specificity, context, constraints, goal) ==
    RoundTenth(clarity + specificity + context + constraints + goal, 5)

\* line 122: ai_analysis.get("confidence", 0.5)
DefaultConfidence == 500

\* "confidence": 0.7
RuleBasedConfidence == 700

\* levels whose limits belong to the lower level
complexity_inclusive(p) ==
    LET word_count == WordCount(p)
    IN  IF word_count <= 20 THEN "Simple"
        ELSE IF word_count <= 50 THEN "Moderate"
        ELSE IF word_count <= 100 THEN "Complex"
        ELSE "Advanced"

_assess_complexity(p) ==
    LET word_count == WordCount(p)
    IN  IF word_count < 20 THEN "Simple"
        ELSE IF word_count < 50 THEN "Moderate"
        ELSE IF word_count < 100 THEN "Complex"
        ELSE "Advanced"

\* lines 166-181: the dict returned
Report(clarity_score, specificity_score, context_score, constraint_score, goal_score, strengths, weaknesses, suggestions, improved_prompt) ==
    Dict(<<
      Item("scores", Dict(<<
          Item("clarity", Num(Round1(clarity_score))),
          Item("specificity", Num(Round1(specificity_score))),
          Item("context", Num(Round1(context_score))),
          Item("constraints", Num(Round1(constraint_score))),
          Item("goal_orientation", Num(Round1(goal_score))),
          Item("overall", Num(overall_of(clarity_score, specificity_score,
                     context_score, constraint_score, goal_score)))>>)),
      Item("analysis", Dict(<<
          Item("strengths", StrList(strengths)),
          Item("weaknesses", StrList(weaknesses)),
          Item("suggestions", StrList(suggestions))>>)),
      Item("improved_prompt", Str(improved_prompt)),
      Item("confidence", Num(RuleBasedConfidence))>>)

\* lines 161-164: the feedback, from the weaknesses found
Feedback(p, clarity_score, specificity_score, context_score, constraint_score, goal_score, strengths, weaknesses) ==
    Report(clarity_score, specificity_score, context_score, constraint_score,
           goal_score, strengths, weaknesses,
           _generate_suggestions(p, weaknesses),
           _improve_prompt(p, weaknesses))

\* lines 161-162, from the five scores
Scored(p, clarity_score, specificity_score, context_score, constraint_score, goal_score) ==
    Feedback(p, clarity_score, specificity_score, context_score,
             constraint_score, goal_score,
             _identify_strengths(p, clarity_score, specificity_score,
                 context_score, constraint_score, goal_score),
             _identify_weaknesses(p, clarity_score, specificity_score,
                 context_score, constraint_score, goal_score))

_rule_based_analysis(p) ==
    Scored(p, _calculate_clarity_score(p), _calculate_specificity_score(p),
           _calculate_context_score(p), _calculate_constraint_score(p),
           _calculate_goal_score(p))

(***************************************************************************)
(* Cleaning the raw response (lines 461-467)                               *)
(***************************************************************************)
\* s[i:].startswith(lit)
StartsWithAt(s, i, lit) ==
    /\ i + Len(lit) - 1 <= Len(s)
    /\ SubSeq(s, i, i + Len(lit) - 1) = lit

\* the end of the whitespace run that starts at i (i itself when there is none)
RECURSIVE SkipSpace(_, _)
SkipSpace(s, i) ==
    IF i <= Len(s) /\ IsSpace(CharAt(s, i)) THEN SkipSpace(s, i + 1) ELSE i

\* SANY admits no backquote inside a string literal: the model writes the
\* backquote of a Markdown code fence as ~, a character its texts do not
\* use otherwise.
Tick == "~"
Fence == Tick \o Tick \o Tick
FenceJson == Fence \o "json"

\* re.sub(r'<fence>json\s*|\s*<fence>', '', s) from position i on: at each
\* position the first alternative is tried, then the second; a match is
\* dropped and the scan goes on after it, any other character is kept.
FenceMatchAt(s, i) ==
    StartsWithAt(s, i, FenceJson) \/ StartsWithAt(s, SkipSpace(s, i), Fence)

\* the first position from i on where the pattern matches, Len(s) + 1
\* when there is none
NextFence(s, i) ==
    IF \E j \in i..Len(s) : FenceMatchAt(s, j)
    THEN CHOOSE j \in i..Len(s) :
            FenceMatchAt(s, j) /\ \A k \in i..(j - 1) : ~FenceMatchAt(s, k)
    ELSE Len(s) + 1

RECURSIVE StripFencesFrom(_, _)

\* the text before the match at m is kept, the scan goes on after the match
StripFenceAt(s, i, m) ==
    IF m > Len(s) THEN SubSeq(s, i, Len(s))
    ELSE SubSeq(s, i, m - 1)
         \o StripFencesFrom(s, IF StartsWithAt(s, m, FenceJson)
                                THEN SkipSpace(s, m + 7)
                                ELSE SkipSpace(s, m) + 3)

StripFencesFrom(s, i) == StripFenceAt(s, i, NextFence(s, i))

StripFences(s) == StripFencesFrom(s, 1)

\* re.search(r'\{.*\}', s, re.DOTALL): from the first "{" to the last "}"
\* of the text (greedy), when that "}" comes after the "{"; else no match
\* and the text is left as it is.
ExtractBraces(s) ==
    LET opens == {i \in 1..Len(s) : CharAt(s, i) = "{"}
        closes == {i \in 1..Len(s) : CharAt(s, i) = "}"}
        first == CHOOSE i \in opens : \A j \in opens : i <= j
        last == CHOOSE i \in closes : \A j \in closes : i >= j
    IN  IF opens # {} /\ closes # {} /\ first < last
        THEN SubSeq(s, first, last)
        ELSE s

\* lines 462-467: the text handed to json.loads
CleanResponse(raw) == ExtractBraces(Strip(StripFences(raw)))

(***************************************************************************)
(* json.loads (Python's json.decoder, strict mode).  A result is           *)
(* [ok |-> TRUE, v |-> value, end |-> next position] or [ok |-> FALSE]     *)
(* (json.JSONDecodeError).  Not modelled, and absent from the response     *)
(* texts of the model: exponents, the escapes \b \f \uXXXX, and fraction   *)
(* digits beyond the third.                                                *)
(***************************************************************************)
NaN == [t |-> "nan"]                       \* float('nan')
Infinity(neg) == [t |-> "inf", neg |-> neg]  \* float('inf'), float('-inf')

JsonFail == [ok |-> FALSE]
JsonOk(v, e) == [ok |-> TRUE, v |-> v, end |-> e]

\* json.decoder.WHITESPACE: [ \t\n\r]*
IsJsonSpace(c) == c \in {" ", "\t", "\n", "\r"}

RECURSIVE SkipJsonSpace(_, _)
SkipJsonSpace(s, i) ==
    IF i <= Len(s) /\ IsJsonSpace(CharAt(s, i)) THEN SkipJsonSpace(s, i + 1)
    ELSE i

DigitChars == "0123456789"
DigitVal(c) == (CHOOSE d \in 1..10 : CharAt(DigitChars, d) = c) - 1

\* the end of the digit run that starts at i
RECURSIVE DigitsEnd(_, _)
DigitsEnd(s, i) ==
    IF i <= Len(s) /\ IsDigit(CharAt(s, i)) THEN DigitsEnd(s, i + 1) ELSE i

\* int(s[a:b]) for a run of digits
RECURSIVE IntOf(_, _, _)
IntOf(s, a, b) ==
    IF b <= a THEN 0 ELSE IntOf(s, a, b - 1) * 10 + DigitVal(CharAt(s, b - 1))

\* the first three digits of the fraction s[a:b], in thousandths
FracOf(s, a, b) ==
    (IF a < b THEN DigitVal(CharAt(s, a)) * 100 ELSE 0)
    + (IF a + 1 < b THEN DigitVal(CharAt(s, a + 1)) * 10 ELSE 0)
    + (IF a + 2 < b THEN DigitVal(CharAt(s, a + 2)) ELSE 0)

\* the number with integer digits s[a:b], fraction digits s[b+1:c] when
\* hasFrac, and sign neg
NumberOf(s, neg, a, b, hasFrac, c) ==
    JsonOk(Num((IF neg THEN 0 - 1 ELSE 1)
               * (IntOf(s, a, b) * 1000
                  + (IF hasFrac THEN FracOf(s, b + 1, c) ELSE 0))), c)

NumberFraction(s, neg, a, b, hasFrac) ==
    NumberOf(s, neg, a, b, hasFrac, IF hasFrac THEN DigitsEnd(s, b + 1) ELSE b)

NumberInteger(s, neg, a, b) ==
    IF b = a THEN JsonFail
    ELSE NumberFraction(s, neg, a, b,
             /\ b + 1 <= Len(s)
             /\ CharAt(s, b) = "."
             /\ IsDigit(CharAt(s, b + 1)))

NumberSign(s, neg, a) ==
    NumberInteger(s, neg, a,
        IF a <= Len(s) /\ CharAt(s, a) = "0" THEN a + 1 ELSE DigitsEnd(s, a))

\* NUMBER_RE = (-?(?:0|[1-9]\d*))(\.\d+)?([eE][-+]?\d+)? matched at i
ParseNumber(s, i) ==
    IF i <= Len(s) /\ CharAt(s, i) = "-"
    THEN NumberSign(s, TRUE, i + 1)
    ELSE NumberSign(s, FALSE, i)

IsSpecial(c) == c \in {"\"", "\\", "\n", "\t", "\r"}

\* the end of the plain run (STRINGCHUNK) that starts at i: the first
\* quote, backslash or control character from i on, Len(s) + 1 when there
\* is none
NextSpecial(s, i) ==
    IF \E j \in i..Len(s) : IsSpecial(CharAt(s, j))
    THEN CHOOSE j \in i..Len(s) :
            IsSpecial(CharAt(s, j)) /\ \A k \in i..(j - 1) : ~IsSpecial(CharAt(s, k))
    ELSE Len(s) + 1

RECURSIVE ScanString(_, _, _)

\* the character e after a backslash at m
ScanEscape(s, m, text, e) ==
    IF e \in {"\"", "\\", "/"} THEN ScanString(s, m + 2, text \o e)
    ELSE IF e = "n" THEN ScanString(s, m + 2, text \o "\n")
    ELSE IF e = "t" THEN ScanString(s, m + 2, text \o "\t")
    ELSE IF e = "r" THEN ScanString(s, m + 2, text \o "\r")
    ELSE JsonFail                                   \* invalid \escape

\* text is what has been decoded up to the special character at m
ScanSpecial(s, m, text) ==
    IF m > Len(s) THEN JsonFail                     \* unterminated string
    ELSE IF CharAt(s, m) = "\"" THEN JsonOk(Str(text), m + 1)
    ELSE IF CharAt(s, m) # "\\" THEN JsonFail       \* control character
    ELSE IF m + 1 > Len(s) THEN JsonFail
    ELSE ScanEscape(s, m, text, CharAt(s, m + 1))

ScanChunk(s, i, acc, m) == ScanSpecial(s, m, acc \o SubSeq(s, i, m - 1))

\* py_scanstring from position i (after the opening quote), acc the text
\* decoded so far
ScanString(s, i, acc) == ScanChunk(s, i, acc, NextSpecial(s, i))

\* dict(pairs): a repeated key keeps its first place and takes the last value
PutItem(items, k, v) ==
    IF \E i \in DOMAIN items : items[i].k = k
    THEN [i \in DOMAIN items |-> IF items[i].k = k THEN Item(k, v) ELSE items[i]]
    ELSE Append(items, Item(k, v))

RECURSIVE ParseValue(_, _)
RECURSIVE ParseMembers(_, _, _)
RECURSIVE ParseElements(_, _, _)

\* JSONObject's loop, member by member: i is at the opening quote of the
\* next key, items are the members read so far
MemberNext(s, put, next) ==
    IF next > Len(s) THEN JsonFail
    ELSE IF CharAt(s, next) = "}" THEN JsonOk(Dict(put), next + 1)
    ELSE IF CharAt(s, next) = ","
    THEN ParseMembers(s, SkipJsonSpace(s, next + 1), put)
    ELSE JsonFail

MemberValue(s, items, k, val) ==
    IF ~val.ok THEN JsonFail
    ELSE MemberNext(s, PutItem(items, k, val.v), SkipJsonSpace(s, val.end))

MemberColon(s, items, k, colon) ==
    IF ~(colon <= Len(s) /\ CharAt(s, colon) = ":") THEN JsonFail
    ELSE MemberValue(s, items, k, ParseValue(s, SkipJsonSpace(s, colon + 1)))

MemberKey(s, items, key) ==
    IF ~key.ok THEN JsonFail
    ELSE MemberColon(s, items, key.v.s, SkipJsonSpace(s, key.end))

ParseMembers(s, i, items) ==
    IF ~(i <= Len(s) /\ CharAt(s, i) = "\"") THEN JsonFail
    ELSE MemberKey(s, items, ScanString(s, i + 1, ""))

\* JSONArray's loop, element by element: i is at the first character of
\* the next element, items are the elements read so far
ElementNext(s, put, next) ==
    IF next > Len(s) THEN JsonFail
    ELSE IF CharAt(s, next) = "]" THEN JsonOk(List(put), next + 1)
    ELSE IF CharAt(s, next) = ","
    THEN ParseElements(s, SkipJsonSpace(s, next + 1), put)
    ELSE JsonFail

ElementValue(s, items, val) ==
    IF ~val.ok THEN JsonFail
    ELSE ElementNext(s, Append(items, val.v), SkipJsonSpace(s, val.end))

ParseElements(s, i, items) == ElementValue(s, items, ParseValue(s, i))

\* an object from the position j after "{" and whitespace
ObjectFrom(s, j) ==
    IF j <= Len(s) /\ CharAt(s, j) = "}" THEN JsonOk(Dict(<<>>), j + 1)
    ELSE ParseMembers(s, j, <<>>)

\* an array from the position j after "[" and whitespace
ArrayFrom(s, j) ==
    IF j <= Len(s) /\ CharAt(s, j) = "]" THEN JsonOk(List(<<>>), j + 1)
    ELSE ParseElements(s, j, <<>>)

\* the number matched at i, or one of the constants NaN, Infinity, -Infinity
NumberOrConstant(s, i, number) ==
    IF number.ok THEN number
    ELSE IF StartsWithAt(s, i, "NaN") THEN JsonOk(NaN, i + 3)
    ELSE IF StartsWithAt(s, i, "Infinity") THEN JsonOk(Infinity(FALSE), i + 8)
    ELSE IF StartsWithAt(s, i, "-Infinity") THEN JsonOk(Infinity(TRUE), i + 9)
    ELSE JsonFail

\* scan_once at position i
ParseValue(s, i) ==
    IF i > Len(s) THEN JsonFail
    ELSE IF CharAt(s, i) = "\"" THEN ScanString(s, i + 1, "")
    ELSE IF CharAt(s, i) = "{" THEN ObjectFrom(s, SkipJsonSpace(s, i + 1))
    ELSE IF CharAt(s, i) = "[" THEN ArrayFrom(s, SkipJsonSpace(s, i + 1))
    ELSE IF StartsWithAt(s, i, "null") THEN JsonOk(None, i + 4)
    ELSE IF StartsWithAt(s, i, "true") THEN JsonOk(Bool(TRUE), i + 4)
    ELSE IF StartsWithAt(s, i, "false") THEN JsonOk(Bool(FALSE), i + 5)
    ELSE NumberOrConstant(s, i, ParseNumber(s, i))

\* one value and whitespace after it, then the end of the text
WholeText(s, r) ==
    IF r.ok /\ SkipJsonSpace(s, r.end) = Len(s) + 1
    THEN [ok |-> TRUE, v |-> r.v]
    ELSE JsonFail

\* json.loads(s)
json_loads(s) == WholeText(s, ParseValue(s, SkipJsonSpace(s, 1)))

(***************************************************************************)
(* External analysis response validator                                    *)
(***************************************************************************)
\* isinstance(v, (int, float)): bool is a subclass of int
IsNumber(v) == v.t \in {"num", "bool", "nan", "inf"}

\* lo <= v <= hi for a number v: True counts as 1 and False as 0, every
\* comparison with nan is false
Between(lo, v, hi) ==
    IF v.t = "num" THEN lo <= v.n /\ v.n <= hi
    ELSE IF v.t = "bool" THEN lo <= (IF v.b THEN 1000 ELSE 0)
                              /\ (IF v.b THEN 1000 ELSE 0) <= hi
    ELSE FALSE

\* v == x for a number literal x (in thousandths)
EqualsNumber(v, x) ==
    IF v.t = "num" THEN v.n = x
    ELSE IF v.t = "bool" THEN (IF v.b THEN 1000 ELSE 0) = x
    ELSE FALSE

\* all(key in container for key in keys): "raise" when the container
\* supports no membership test (TypeError), else "true" or "false".  On a
\* dict `in` tests the keys, on a list the elements, on a str the
\* substrings.
AllIn(keys, container) ==
    IF container.t = "dict"
    THEN IF \A i \in DOMAIN keys : HasKey(container, keys[i])
         THEN "true" ELSE "false"
    ELSE IF container.t = "list"
    THEN IF \A i \in DOMAIN keys :
                \E j \in DOMAIN container.items : container.items[j] = Str(keys[i])
         THEN "true" ELSE "false"
    ELSE IF container.t = "str"
    THEN IF \A i \in DOMAIN keys : Contains(container.s, keys[i])
         THEN "true" ELSE "false"
    ELSE "raise"

required_keys == <<"scores", "analysis", "improved_prompt", "confidence">>
score_keys ==
    <<"clarity", "specificity", "context", "constraints", "goal_orientation",
      "overall">>
analysis_keys == <<"strengths", "weaknesses", "suggestions">>

\* a validator that leaves every score as delivered
AsDelivered(score) == score

\* lines 525-527: a one-element list is replaced by its element
Unwrap(score) ==
    IF score.t = "list" /\ Len(score.items) = 1 THEN score.items[1] ELSE score

\* line 529, negated: the score passes
ScoreAccepted(score) == IsNumber(score) /\ Between(1000, score, 10000)

\* line 535, negated: the confidence passes
ConfidenceAccepted(confidence) ==
    IsNumber(confidence) /\ Between(0, confidence, 1000)

\* response with the value of "scores" replaced (scores is mutated in place)
WithScores(response, scores) ==
    Dict([i \in DOMAIN response.items |->
            IF response.items[i].k = "scores" THEN Item("scores", scores)
            ELSE response.items[i]])

\* lines 523-532: the loop over scores.items().  Every entry up to and
\* including the first rejected one has been unwrapped in place.
ScoresLoop(scores) ==
    LET bad == {i \in DOMAIN scores.items :
                    ~ScoreAccepted(Unwrap(scores.items[i].v))}
        stop == IF bad = {} THEN Len(scores.items)
                ELSE CHOOSE i \in bad : \A j \in bad : i <= j
    IN  [ok |-> bad = {},
         scores |-> Dict([i \in DOMAIN scores.items |->
                        IF i <= stop
                        THEN Item(scores.items[i].k, Unwrap(scores.items[i].v))
                        ELSE scores.items[i]])]

\* _validate_ai_response(response): [outcome, response], outcome "true",
\* "false" or "raise" (an exception leaves the function), response the
\* argument as the call leaves it.
_validate_ai_response(response) ==
    LET Out(o, r) == [outcome |-> o, response |-> r]
        main == AllIn(required_keys, response)
    IN  IF main # "true" THEN Out(main, response)
        ELSE IF response.t # "dict" THEN Out("raise", response)   \* response.get
        ELSE
        LET scores == Get(response, "scores", Dict(<<>>))
            hasScores == AllIn(score_keys, scores)
        IN  IF hasScores # "true" THEN Out(hasScores, response)
            ELSE
            LET analysis == Get(response, "analysis", Dict(<<>>))
                hasAnalysis == AllIn(analysis_keys, analysis)
            IN  IF hasAnalysis # "true" THEN Out(hasAnalysis, response)
                ELSE IF scores.t # "dict" THEN Out("raise", response)  \* scores.items
                ELSE
                LET loop == ScoresLoop(scores)
                    fixed == WithScores(response, loop.scores)
                IN  IF ~loop.ok THEN Out("false", fixed)
                    ELSE IF ~ConfidenceAccepted(Get(response, "confidence", Num(0)))
                    THEN Out("false", fixed)
                    ELSE Out("true", fixed)

\* `not v`: the falsy values
Falsy(v) ==
    \/ v.t = "null"
    \/ v.t = "bool" /\ ~v.b
    \/ v.t = "num" /\ v.n = 0
    \/ v.t = "str" /\ v.s = ""
    \/ v.t \in {"list", "dict"} /\ v.items = <<>>

\* a range that leaves out its two ends
SuspiciousInside(overall_score) ==
    \/ EqualsNumber(overall_score, 5000)
    \/ Between(5501, overall_score, 5699)

\* line 551: overall_score == 5.0 or (5.5 <= overall_score <= 5.7)
Suspicious(overall_score) ==
    EqualsNumber(overall_score, 5000) \/ Between(5500, overall_score, 5700)

\* _is_valid_ai_analysis(ai_analysis), for None and for a response that
\* passed _validate_ai_response (its overall and confidence are numbers)
_is_valid_ai_analysis(analysis) ==
    IF Falsy(analysis) THEN FALSE
    ELSE LET scores == Get(analysis, "scores", Dict(<<>>))
             overall_score == Get(scores, "overall", Num(0))
             confidence == Get(analysis, "confidence", Num(0))
         IN  ~(Suspicious(overall_score) /\ EqualsNumber(confidence, 700))

(***************************************************************************)
(* The arbiter: _get_ai_analysis and comprehensive_analysis                *)
(***************************************************************************)
\* What the external collaborator did.  get_service raises AIServiceError
\* when no service is configured, generate_response raises AIServiceError
\* when the generation call fails, and returns the response text otherwise.
Pending == [kind |-> "pending"]
ServiceError == [kind |-> "service_error"]
ApiError == [kind |-> "api_error"]
Text(raw) == [kind |-> "text", text |-> raw]
NoResponse == [kind |-> "no_response"]

NotReached == [ok |-> FALSE, reached |-> FALSE]
NotValidated == [outcome |-> "not_reached"]

\* lines 475-482: the outcome of validation decides what is returned
Validated(loaded, checked) ==
    [value |-> IF checked.outcome = "true" THEN checked.response ELSE None,
     parsed |-> loaded,
     validation |-> checked]

\* lines 469-475.  self.debug is True, so line 472 calls
\* parsed_response.keys().
Loaded(loaded) ==
    IF ~loaded.ok                      \* json.JSONDecodeError
    THEN [value |-> None, parsed |-> [ok |-> FALSE, reached |-> TRUE],
          validation |-> NotValidated]
    ELSE IF loaded.v.t # "dict"        \* AttributeError: no keys()
    THEN [value |-> None, parsed |-> loaded, validation |-> NotValidated]
    ELSE Validated(loaded, _validate_ai_response(loaded.v))

\* _get_ai_analysis, from the point where the external call has ended:
\* [value, parsed, validation] with value the dict returned or None
_get_ai_analysis(ext) ==
    IF ext.kind # "text"
    THEN [value |-> None, parsed |-> NotReached, validation |-> NotValidated]
    ELSE Loaded(json_loads(CleanResponse(ext.text)))

\* an arbiter that skips the plausibility check
FallbackOnNone(value) == Falsy(value)

\* line 91: not ai_analysis or not self._is_valid_ai_analysis(ai_analysis),
\* the second operand is evaluated only when the first is false
Plausibility(value) ==
    IF Falsy(value) THEN "not_reached"
    ELSE IF _is_valid_ai_analysis(value) THEN "true" ELSE "false"

UseFallback(value) == Plausibility(value) # "true"

\* metrics whose overall score is computed again from the five dimensions
MetricsRecomputed(scores, p) ==
    [clarity_score |-> Get(scores, "clarity", Num(5000)),
     specificity_score |-> Get(scores, "specificity", Num(5000)),
     context_score |-> Get(scores, "context", Num(5000)),
     constraint_score |-> Get(scores, "constraints", Num(5000)),
     goal_orientation_score |-> Get(scores, "goal_orientation", Num(5000)),
     overall_score |->
        IF \A i \in DOMAIN scores.items : scores.items[i].v.t = "num"
        THEN Num(overall_of(Get(scores, "clarity", Num(5000)).n,
                            Get(scores, "specificity", Num(5000)).n,
                            Get(scores, "context", Num(5000)).n,
                            Get(scores, "constraints", Num(5000)).n,
                            Get(scores, "goal_orientation", Num(5000)).n))
        ELSE Get(scores, "overall", Num(5000)),
     word_count |-> WordCount(p),
     sentence_count |-> SentenceCount(p),
     complexity_level |-> _assess_complexity(p)]

\* lines 100-111
AnalysisMetrics(scores, p) ==
    [clarity_score |-> Get(scores, "clarity", Num(5000)),
     specificity_score |-> Get(scores, "specificity", Num(5000)),
     context_score |-> Get(scores, "context", Num(5000)),
     constraint_score |-> Get(scores, "constraints", Num(5000)),
     goal_orientation_score |-> Get(scores, "goal_orientation", Num(5000)),
     overall_score |-> Get(scores, "overall", Num(5000)),
     word_count |-> WordCount(p),
     sentence_count |-> SentenceCount(p),
     complexity_level |-> _assess_complexity(p)]

Raised(error) == [kind |-> "raised", error |-> error]
Returned(value) == [kind |-> "returned", value |-> value]

\* lines 99-123: the AnalysisResult built from the analysis in use.  get is
\* a method of dict only.
AnalysisResult(analysis_in_use, p) ==
    IF analysis_in_use.t # "dict" THEN Raised("AttributeError") ELSE
    LET scores == Get(analysis_in_use, "scores", Dict(<<>>))
        analysis == Get(analysis_in_use, "analysis", Dict(<<>>))
    IN  IF scores.t # "dict" \/ analysis.t # "dict"
        THEN Raised("AttributeError")
        ELSE Returned(
            [metrics |-> AnalysisMetrics(scores, p),
             strengths |-> Get(analysis, "strengths", List(<<>>)),
             weaknesses |-> Get(analysis, "weaknesses", List(<<>>)),
             suggestions |-> Get(analysis, "suggestions", List(<<>>)),
             improved_prompt |-> Get(analysis_in_use, "improved_prompt", Str(p)),
             confidence_level |-> Get(analysis_in_use, "confidence",
                                     Num(DefaultConfidence))])

\* the analysis in use at line 99
AnalysisInUse(value, p) ==
    IF UseFallback(value) THEN _rule_based_analysis(p) ELSE value

(***************************************************************************)
(* The texts the external collaborator may return: JSON values written out *)
(* as json.dumps writes them, bare or wrapped, and texts that are no JSON.  *)
(***************************************************************************)
Digit(d) == SubSeq(DigitChars, d + 1, d + 1)

RECURSIVE NatStr(_)
NatStr(n) == IF n < 10 THEN Digit(n) ELSE NatStr(n \div 10) \o Digit(n % 10)

\* a number of thousandths in decimal notation
NumStr(n) ==
    LET a == IF n < 0 THEN 0 - n ELSE n
        f == a % 1000
    IN  (IF n < 0 THEN "-" ELSE "") \o NatStr(a \div 1000)
        \o (IF f = 0 THEN ""
            ELSE IF f % 100 = 0 THEN "." \o Digit(f \div 100)
            ELSE IF f % 10 = 0 THEN "." \o Digit(f \div 100) \o Digit((f \div 10) % 10)
            ELSE "." \o Digit(f \div 100) \o Digit((f \div 10) % 10) \o Digit(f % 10))

RECURSIVE Render(_)
RECURSIVE RenderItems(_, _)
RECURSIVE RenderElements(_, _)

RenderItems(items, i) ==
    IF i > Len(items) THEN ""
    ELSE (IF i > 1 THEN ", " ELSE "")
         \o "\"" \o items[i].k \o "\": " \o Render(items[i].v)
         \o RenderItems(items, i + 1)

RenderElements(items, i) ==
    IF i > Len(items) THEN ""
    ELSE (IF i > 1 THEN ", " ELSE "") \o Render(items[i])
         \o RenderElements(items, i + 1)

Render(v) ==
    IF v.t = "null" THEN "null"
    ELSE IF v.t = "bool" THEN (IF v.b THEN "true" ELSE "false")
    ELSE IF v.t = "num" THEN NumStr(v.n)
    ELSE IF v.t = "nan" THEN "NaN"
    ELSE IF v.t = "inf" THEN (IF v.neg THEN "-Infinity" ELSE "Infinity")
    ELSE IF v.t = "str" THEN "\"" \o v.s \o "\""
    ELSE IF v.t = "list" THEN "[" \o RenderElements(v.items, 1) \o "]"
    ELSE "{" \o RenderItems(v.items, 1) \o "}"

Put(d, key, v) == Dict(PutItem(d.items, key, v))
PutIn(d, outer, key, v) == Put(d, outer, Put(Get(d, outer, None), key, v))
Without(d, key) == Dict(SelectSeq(d.items, LAMBDA it : it.k # key))
WithoutIn(d, outer, key) == Put(d, outer, Without(Get(d, outer, None), key))
Range(seq) == {seq[i] : i \in DOMAIN seq}

\* the longest sequence delivered in place of a score
MaxSeqLen == 2

\* n scores of 7 in a sequence
Sevens(n) == List([i \in 1..n |-> Num(7000)])

\* a response that meets every requirement
GoodResponse ==
    Dict(<<
      Item("scores", Dict(<<
          Item("clarity", Num(8000)), Item("specificity", Num(7000)),
          Item("context", Num(6000)), Item("constraints", Num(7000)),
          Item("goal_orientation", Num(8000)), Item("overall", Num(7200))>>)),
      Item("analysis", Dict(<<
          Item("strengths", StrList(<<"Clear goal">>)),
          Item("weaknesses", StrList(<<"No audience">>)),
          Item("suggestions", StrList(<<"Name the audience">>))>>)),
      Item("improved_prompt", Str("Write a short report for managers.")),
      Item("confidence", Num(900))>>)

ScoreValues ==
    {Num(0), Num(999), Num(1000), Num(7000), Num(10000), Num(10001),
     Str("7"), None, Bool(TRUE), Bool(FALSE), NaN, Infinity(FALSE),
     List(<<Num(1000)>>), List(<<Num(10000)>>), List(<<Num(0)>>),
     List(<<Num(11000)>>), List(<<Str("7")>>), List(<<Bool(TRUE)>>),
     List(<<List(<<Num(7000)>>)>>)}
    \cup {Sevens(n) : n \in 0..MaxSeqLen}

OverallValues ==
    {Num(4999), Num(5000), Num(5001), Num(5499), Num(5500), Num(5600),
     Num(5700), Num(5701), Num(6200), List(<<Num(5000)>>), List(<<Num(5600)>>)}

ConfidenceValues ==
    {Num(0 - 1), Num(0), Num(699), Num(700), Num(701), Num(850), Num(1000),
     Num(1001), Str("0.9"), None, Bool(TRUE), Bool(FALSE), NaN,
     List(<<Num(900)>>)}

\* the keys from the i-th on in one text, a space after each
RECURSIVE Spaced(_, _)
Spaced(keys, i) ==
    IF i > Len(keys) THEN "" ELSE keys[i] \o " " \o Spaced(keys, i + 1)

\* what may stand where a mapping with the given keys is expected
NonMappings(keys) ==
    {Num(5000), None, Bool(TRUE), Str("x"), List(<<>>), Dict(<<>>),
     StrList(keys), StrList(SubSeq(keys, 2, Len(keys))),
     Str(Spaced(keys, 1))}

Responses ==
    {GoodResponse}
    \cup {Without(GoodResponse, k) : k \in Range(required_keys)}
    \cup {WithoutIn(GoodResponse, "scores", k) : k \in Range(score_keys)}
    \cup {WithoutIn(GoodResponse, "analysis", k) : k \in Range(analysis_keys)}
    \cup {PutIn(GoodResponse, "scores", k, v) :
            k \in {"specificity", "overall"}, v \in ScoreValues}
    \cup {Put(PutIn(GoodResponse, "scores", "overall", o), "confidence", c) :
            o \in OverallValues, c \in {Num(699), Num(700), Num(701), Num(850)}}
    \cup {Put(GoodResponse, "confidence", c) : c \in ConfidenceValues}
    \cup {Put(GoodResponse, "scores", v) : v \in NonMappings(score_keys)}
    \cup {Put(GoodResponse, "analysis", v) : v \in NonMappings(analysis_keys)}
    \cup NonMappings(required_keys)
    \cup {PutIn(GoodResponse, "scores", "bonus", v) :
            v \in {Num(5000), Str("x"), List(<<Num(3000)>>)}}
    \cup {PutIn(GoodResponse, "analysis", "strengths", v) :
            v \in {None, StrList(<<"a", "b", "c", "d", "e", "f", "g">>)}}

RawTexts ==
    {Render(v) : v \in Responses}
    \cup {FenceJson \o "\n" \o Render(v) \o "\n" \o Fence :
            v \in {GoodResponse,
                   PutIn(GoodResponse, "scores", "specificity", Sevens(1))}}
    \cup {"Here is the analysis: " \o Render(GoodResponse) \o " I hope it helps.",
          "", "I cannot analyze this prompt.", "{", "{\"scores\": {\"clarity\": 8",
          Render(GoodResponse) \o " {see above}",
          "{'scores': 1}"}

Prompts ==
    {"", "help me",
     "Write a 500 word essay about marketing for beginners."}

(***************************************************************************)
(* One call of comprehensive_analysis                                      *)
(***************************************************************************)
NoResult == [kind |-> "none"]

Init ==
    /\ pc = "idle"
    /\ prompt = ""
    /\ external = [kind |-> "none"]
    /\ parsed = NotReached
    /\ validation = NotValidated
    /\ plausible = "not_reached"
    /\ path = "none"
    /\ ai_analysis = None
    /\ result = NoResult
    /\ SessionStart

\* lines 75-88 and 441-453: the call computes the local metrics and hands
\* the prompt to the external collaborator
Analyze(p) ==
    /\ pc = "idle"
    /\ pc' = "ATTEMPT_EXTERNAL"
    /\ prompt' = p
    /\ external' = Pending
    /\ UNCHANGED <<parsed, validation, plausible, path, ai_analysis, result>>
    /\ UNCHANGED app_vars

\* lines 99-123: the result of the call on p is built from the analysis in use
DeliverFor(p, got, in_use) ==
    /\ parsed' = got.parsed
    /\ validation' = got.validation
    /\ plausible' = Plausibility(got.value)
    /\ path' = IF UseFallback(got.value) THEN "FALLBACK" ELSE "EXTERNAL"
    /\ ai_analysis' = in_use
    /\ result' = AnalysisResult(in_use, p)

Deliver(got, in_use) == DeliverFor(prompt, got, in_use)

\* lines 91-97: the arbiter chooses the analysis in use
Arbitrate(got) == Deliver(got, AnalysisInUse(got.value, prompt))

\* lines 458-491 and 91-123: the external call has ended as ext says, and
\* the call runs to its end
Conclude(ext) ==
    /\ pc = "ATTEMPT_EXTERNAL"
    /\ external = Pending
    /\ external' = ext
    /\ Arbitrate(_get_ai_analysis(ext))
    /\ pc' = "done"
    /\ UNCHANGED prompt
    /\ UNCHANGED app_vars

\* AIServiceManager.get_service finds no service and raises
GetServiceRaises == Conclude(ServiceError)

\* GeminiService.generate_response: the generation call fails
GenerateRaises == Conclude(ApiError)

\* GeminiService.generate_response: the generation call returns a text
GenerateReturns(raw) == Conclude(Text(raw))

\* GeminiService.generate_response: generate_content, called without a
\* timeout, does not return; the call stays inside it
GenerateBlocks ==
    /\ pc = "ATTEMPT_EXTERNAL"
    /\ external = Pending
    /\ external' = NoResponse
    /\ UNCHANGED <<pc, prompt, parsed, validation, plausible, path,
                   ai_analysis, result>>
    /\ UNCHANGED app_vars

Next ==
    \/ \E p \in Prompts : Analyze(p)
    \/ GetServiceRaises
    \/ GenerateRaises
    \/ \E raw \in RawTexts : GenerateReturns(raw)
    \/ GenerateBlocks

Spec == Init /\ [][Next]_vars

\* the ways the external call can go, once made
ExternalEnds ==
    \/ GenerateBlocks
    \/ GetServiceRaises
    \/ GenerateRaises
    \/ \E raw \in RawTexts : GenerateReturns(raw)

\* A call that is asked for is made, and the external call then goes one of
\* its ways.  Nothing obliges generate_content, called without a timeout, to
\* return or to fail.
LiveSpec ==
    /\ Spec
    /\ WF_vars(\E p \in Prompts : Analyze(p))
    /\ WF_vars(ExternalEnds)

(***************************************************************************)
(* The heuristic analyzer on its own: the prompt is drawn from the texts   *)
(* of at most MaxWords words of the vocabulary and from the examples, the  *)
(* five scorers are applied to it, then _rule_based_analysis.              *)
(***************************************************************************)
MaxWords == 3

Vocabulary == <<"thing", "maybe", "something", "please", "write", "my">>

RECURSIVE Joined(_, _)
Joined(words, i) ==
    IF i > Len(words) THEN ""
    ELSE (IF i > 1 THEN " " ELSE "") \o words[i] \o Joined(words, i + 1)

Examples ==
    {"", "Hello.", "help me", "Write a story",
     "Write a 500 word essay about marketing for beginners.",
     "Can you help me fix this thing? Maybe do something, anything, whatever.",
     "Format as a table, write in a formal, professional, friendly and simple tone, include 100 words, brief but detailed, for a beginner audience.",
     "Please help create, write and design the output somehow, show the result whatever.",
     "I am a teacher and my team needs a report because our project is due. Create a numbered list of 10 steps in markdown for the students, explain each step in 2 sentences and compare the result with the goal."}

ScorerPrompts ==
    {Joined(words, 1) :
        words \in UNION {[1..n -> Range(Vocabulary)] : n \in 0..MaxWords}}
    \cup Examples

ScorerInit ==
    /\ pc = "idle"
    /\ prompt \in ScorerPrompts
    /\ external = [kind |-> "none"]
    /\ parsed = NotReached
    /\ validation = NotValidated
    /\ plausible = "not_reached"
    /\ path = "none"
    /\ ai_analysis = None
    /\ result = NoResult
    /\ SessionStart

\* lines 147-151: the five scorers applied to the prompt
Score ==
    /\ pc = "idle"
    /\ pc' = "scored"
    /\ result' = [kind |-> "scores",
                  clarity |-> _calculate_clarity_score(prompt),
                  specificity |-> _calculate_specificity_score(prompt),
                  context |-> _calculate_context_score(prompt),
                  constraints |-> _calculate_constraint_score(prompt),
                  goal |-> _calculate_goal_score(prompt)]
    /\ UNCHANGED <<prompt, external, parsed, validation, plausible, path,
                   ai_analysis>>
    /\ UNCHANGED app_vars

\* lines 138-181: _rule_based_analysis applied to the prompt
RuleBased ==
    /\ pc = "scored"
    /\ pc' = "analyzed"
    /\ ai_analysis' = _rule_based_analysis(prompt)
    /\ UNCHANGED <<prompt, external, parsed, validation, plausible, path,
                   result>>
    /\ UNCHANGED app_vars

ScorerNext == Score \/ RuleBased

ScorerSpec == ScorerInit /\ [][ScorerNext]_vars

(***************************************************************************)
(* _improve_prompt applied to a prompt, then to its own output.  The       *)
(* prompts are a short and a long request, each followed by any of the     *)
(* sentences that name a format or a length, and texts at the 15 word      *)
(* limit.                                                                  *)
(***************************************************************************)
ShortRequest == "Summarize the report."

\* 18 words, none of them a format or length word
LongRequest ==
    "Please summarize the attached quarterly report for the management team "
    \o "and list the three main risks in order."

Markers ==
    <<" Format it as a table.", " Use 100 words.", " Mind the length.",
      " Be brief.", " Be detailed.">>

\* the markers chosen, in the order of Markers, from the i-th on
RECURSIVE MarkersIn(_, _)
MarkersIn(chosen, i) ==
    IF i > Len(Markers) THEN ""
    ELSE (IF i \in chosen THEN Markers[i] ELSE "") \o MarkersIn(chosen, i + 1)

\* n times the word, a space between (built by halves)
RECURSIVE Repeated(_, _)
Repeated(word, n) ==
    IF n = 0 THEN ""
    ELSE IF n = 1 THEN word
    ELSE Repeated(word, n \div 2) \o " " \o Repeated(word, n - n \div 2)

ImprovePrompts ==
    {base \o MarkersIn(chosen, 1) :
        base \in {ShortRequest, LongRequest}, chosen \in SUBSET DOMAIN Markers}
    \cup {Repeated("go", 14), Repeated("go", 15), "", "  \n",
          "  " \o LongRequest \o " \n", " " \o ShortRequest \o " ",
          Repeated("FORMAT", 15), Repeated("Words", 16)}

ImproveInit ==
    /\ pc = "idle"
    /\ prompt \in ImprovePrompts
    /\ external = [kind |-> "none"]
    /\ parsed = NotReached
    /\ validation = NotValidated
    /\ plausible = "not_reached"
    /\ path = "none"
    /\ ai_analysis = None
    /\ result = NoResult
    /\ SessionStart

\* _improve_prompt(prompt, weaknesses); the weaknesses are not read
Improve ==
    /\ pc = "idle"
    /\ pc' = "improved"
    /\ result' = [kind |-> "improved",
                  improved_prompt |-> _improve_prompt(prompt, <<>>)]
    /\ UNCHANGED <<prompt, external, parsed, validation, plausible, path,
                   ai_analysis>>
    /\ UNCHANGED app_vars

\* _improve_prompt applied to the text it returned
ImproveAgain ==
    /\ pc = "improved"
    /\ pc' = "improved_again"
    /\ result' = [kind |-> "improved_again",
                  first |-> result.improved_prompt,
                  improved_prompt |-> _improve_prompt(result.improved_prompt, <<>>)]
    /\ UNCHANGED <<prompt, external, parsed, validation, plausible, path,
                   ai_analysis>>
    /\ UNCHANGED app_vars

ImproveNext == Improve \/ ImproveAgain

ImproveSpec == ImproveInit /\ [][ImproveNext]_vars

(***************************************************************************)
(* The local metrics of a prompt of n words, for every n up to             *)
(* MaxComplexityWords and two different words.                             *)
(***************************************************************************)
MaxComplexityWords == 101

ComplexityPrompts ==
    {Repeated(word, n) : word \in {"go", "Stop! Now"}, n \in 0..MaxComplexityWords}

ComplexityInit ==
    /\ pc = "idle"
    /\ prompt \in ComplexityPrompts
    /\ external = [kind |-> "none"]
    /\ parsed = NotReached
    /\ validation = NotValidated
    /\ plausible = "not_reached"
    /\ path = "none"
    /\ ai_analysis = None
    /\ result = NoResult
    /\ SessionStart

\* lines 83 and 85: word_count and complexity of the prompt
Assess ==
    /\ pc = "idle"
    /\ pc' = "assessed"
    /\ result' = [kind |-> "metrics",
                  word_count |-> WordCount(prompt),
                  complexity_level |-> _assess_complexity(prompt)]
    /\ UNCHANGED <<prompt, external, parsed, validation, plausible, path,
                   ai_analysis>>
    /\ UNCHANGED app_vars

ComplexitySpec == ComplexityInit /\ [][Assess]_vars

(***************************************************************************)
(* Properties                                                              *)
(***************************************************************************)
\* a JSON number between lo and hi
JsonNumberIn(v, lo, hi) == v.t = "num" /\ lo <= v.n /\ v.n <= hi

\* the element of a single-element sequence, any other value as it is
Scalar(v) == IF v.t = "list" /\ Len(v.items) = 1 THEN v.items[1] ELSE v

\* v is a mapping that has every one of the keys
HasAll(v, keys) ==
    v.t = "dict" /\ \A k \in Range(keys) : \E i \in DOMAIN v.items : v.items[i].k = k

\* v has the four top-level keys, the six keys inside scores and the three
\* keys inside analysis
AllKeysPresent(v) ==
    /\ HasAll(v, required_keys)
    /\ HasAll(Get(v, "scores", None), score_keys)
    /\ HasAll(Get(v, "analysis", None), analysis_keys)

\* the scores block of the response as json.loads read it
DeliveredScores ==
    IF parsed.ok /\ parsed.v.t = "dict" /\ Get(parsed.v, "scores", None).t = "dict"
    THEN Get(parsed.v, "scores", None) ELSE Dict(<<>>)

\* the value the response delivered for the score k
Delivered(k) == Get(DeliveredScores, k, None)

\* the confidence the response delivered
DeliveredConfidence ==
    IF parsed.ok /\ parsed.v.t = "dict" THEN Get(parsed.v, "confidence", None)
    ELSE None

\* the field of the metrics that holds the score k
MetricOf(metrics, k) ==
    CASE k = "clarity" -> metrics.clarity_score
      [] k = "specificity" -> metrics.specificity_score
      [] k = "context" -> metrics.context_score
      [] k = "constraints" -> metrics.constraint_score
      [] k = "goal_orientation" -> metrics.goal_orientation_score
      [] k = "overall" -> metrics.overall_score

\* overall is 5.0 or in [5.5, 5.7], and confidence is 0.7
Implausible(overall, confidence) ==
    /\ overall.t = "num"
    /\ overall.n = 5000 \/ (5500 <= overall.n /\ overall.n <= 5700)
    /\ confidence.t = "num"
    /\ confidence.n = 700

\* r is a returned result that carries the scores, the feedback lists, the
\* improved prompt and the confidence of the heuristic analysis h
IsHeuristic(r, h) ==
    /\ r.kind = "returned"
    /\ \A k \in Range(score_keys) :
          MetricOf(r.value.metrics, k) = Get(Get(h, "scores", None), k, None)
    /\ r.value.strengths = Get(Get(h, "analysis", None), "strengths", None)
    /\ r.value.weaknesses = Get(Get(h, "analysis", None), "weaknesses", None)
    /\ r.value.suggestions = Get(Get(h, "analysis", None), "suggestions", None)
    /\ r.value.improved_prompt = Get(h, "improved_prompt", None)
    /\ r.value.confidence_level = Get(h, "confidence", None)

ExternalRaised == external.kind \in {"service_error", "api_error"}
NotJson == external.kind = "text" /\ ~parsed.ok
NotAMapping == parsed.ok /\ parsed.v.t # "dict"

\* C1, as amended: the call takes the FALLBACK path, and returns what the
\* heuristic analyzer computes for the prompt, exactly when the external call
\* or obtaining the service raises, the text is no JSON, the JSON value is
\* not a mapping, the validator returns false or raises, or the plausibility
\* check returns false; in every other case it takes the EXTERNAL path.
C1_FallbackCases ==
    pc = "done" =>
        /\ path \in {"FALLBACK", "EXTERNAL"}
        /\ path = "FALLBACK" <=>
              \/ ExternalRaised
              \/ NotJson
              \/ NotAMapping
              \/ validation.outcome \in {"false", "raise"}
              \/ plausible = "false"
        /\ path = "FALLBACK" => IsHeuristic(result, _rule_based_analysis(prompt))

\* a call that fell back because the plausibility check returned false
C1_FellBackOnPlausibility ==
    /\ pc = "done"
    /\ path = "FALLBACK"
    /\ validation.outcome = "true"
    /\ plausible = "false"
    /\ IsHeuristic(result, _rule_based_analysis(prompt))

\* C1, as stated: FALLBACK exactly in the four cases named
C1_FourCasesOnly ==
    pc = "done" =>
        (path = "FALLBACK" <=>
            \/ ExternalRaised
            \/ NotJson
            \/ validation.outcome = "false"
            \/ plausible = "false")

\* C2: whatever the external collaborator does, the call raises no
\* exception and returns a complete AnalysisResult.
C2_AlwaysReturns == pc = "done" => result.kind = "returned"

\* C3: every call that waits for the external collaborator ends.
C3_Terminates == (pc = "ATTEMPT_EXTERNAL") ~> (pc = "done")

InScale(x) == 1000 <= x /\ x <= 10000

\* C4: each of the five scorers returns a value in [1.0, 10.0] for every
\* prompt, whatever the sum of base, bonuses and penalties.
C4_ScoresInScale ==
    pc \in {"scored", "analyzed"} =>
        /\ InScale(result.clarity)
        /\ InScale(result.specificity)
        /\ InScale(result.context)
        /\ InScale(result.constraints)
        /\ InScale(result.goal)

\* three vague words in a prompt of three words: base 3.0, penalty 3.0
C4_SumBelowScale ==
    /\ pc = "scored"
    /\ prompt = "thing maybe something"
    /\ result.clarity = 1000

\* the five dimension scores of an analysis, added up
SumOfScores(scores) ==
    Get(scores, "clarity", None).n + Get(scores, "specificity", None).n
    + Get(scores, "context", None).n + Get(scores, "constraints", None).n
    + Get(scores, "goal_orientation", None).n

\* o is a multiple of 0.1 and no further than 0.05 from sum / 5
IsRoundedMean(o, sum) ==
    o % 100 = 0 /\ 2 * (5 * o - sum) <= 500 /\ 2 * (sum - 5 * o) <= 500

\* C5: the overall score of the heuristic analyzer is the mean of the five
\* dimension scores it reports, rounded to one decimal, and lies in
\* [1.0, 10.0].
C5_OverallIsMean ==
    pc = "analyzed" =>
        /\ IsRoundedMean(Get(Get(ai_analysis, "scores", None), "overall", None).n,
                         SumOfScores(Get(ai_analysis, "scores", None)))
        /\ InScale(Get(Get(ai_analysis, "scores", None), "overall", None).n)

\* an analysis whose mean has a second decimal
C5_MeanIsRounded ==
    /\ pc = "analyzed"
    /\ SumOfScores(Get(ai_analysis, "scores", None)) % 500 # 0

\* C6: the validator returns false for every structure that lacks one of
\* the top-level keys, of the keys inside scores or of the keys inside
\* analysis.
C6_RejectsMissingKeys ==
    (validation.outcome # "not_reached" /\ ~AllKeysPresent(parsed.v))
        => validation.outcome = "false"

\* C7: with every key present, the validator returns false when a score,
\* after unwrapping, is not a number in [1, 10] or the confidence is not a
\* number in [0, 1], and returns true otherwise.
C7_RejectsOutOfRange ==
    (validation.outcome # "not_reached" /\ AllKeysPresent(parsed.v)) =>
        (validation.outcome = "false" <=>
            \/ \E i \in DOMAIN DeliveredScores.items :
                 ~JsonNumberIn(Scalar(DeliveredScores.items[i].v), 1000, 10000)
            \/ ~JsonNumberIn(DeliveredConfidence, 0, 1000))

\* every score but k is a number in [1, 10], alone or in a single-element
\* sequence, and the confidence is a number in [0, 1]
ValidBut(k) ==
    /\ \A i \in DOMAIN DeliveredScores.items :
          \/ DeliveredScores.items[i].k = k
          \/ JsonNumberIn(Scalar(DeliveredScores.items[i].v), 1000, 10000)
    /\ JsonNumberIn(DeliveredConfidence, 0, 1000)

\* C8: a score delivered as [v], v a number in [1, 10], in a response that
\* is valid otherwise, is replaced by v and accepted, and the result carries
\* v and the confidence of the response; a sequence of any other length is
\* rejected.
C8_UnwrapsSingle ==
    (pc = "done" /\ validation.outcome # "not_reached" /\ AllKeysPresent(parsed.v)) =>
        \A k \in Range(score_keys) :
            /\ (Delivered(k).t = "list" /\ Len(Delivered(k).items) # 1)
                  => validation.outcome = "false"
            /\ (/\ Delivered(k).t = "list"
                /\ Len(Delivered(k).items) = 1
                /\ JsonNumberIn(Delivered(k).items[1], 1000, 10000)
                /\ ValidBut(k))
                  => /\ validation.outcome = "true"
                     /\ Get(Get(validation.response, "scores", None), k, None)
                            = Delivered(k).items[1]
                     /\ ~Implausible(Scalar(Delivered("overall")), DeliveredConfidence)
                          => /\ path = "EXTERNAL"
                             /\ result.kind = "returned"
                             /\ MetricOf(result.value.metrics, k) = Delivered(k).items[1]
                             /\ result.value.confidence_level = DeliveredConfidence

\* the example: specificity [7] becomes 7, confidence_level is 0.9
C8_SevenUnwrapped ==
    /\ pc = "done"
    /\ Delivered("specificity") = List(<<Num(7000)>>)
    /\ path = "EXTERNAL"
    /\ result.kind = "returned"
    /\ result.value.metrics.specificity_score = Num(7000)
    /\ result.value.confidence_level = Num(900)

\* C9: on a response that passed validation, the plausibility check returns
\* false exactly when overall is 5.0 or in [5.5, 5.7] and confidence is 0.7.
C9_Plausibility ==
    plausible # "not_reached" =>
        (plausible = "false" <=>
            Implausible(Get(Get(validation.response, "scores", None), "overall", None),
                        Get(validation.response, "confidence", None)))

\* a response at the upper end of the range, found implausible
C9_UpperEndRejected ==
    /\ plausible = "false"
    /\ Get(Get(validation.response, "scores", None), "overall", None) = Num(5700)
    /\ Get(validation.response, "confidence", None) = Num(700)

\* C10: on the EXTERNAL path the six scores of the metrics are the values
\* the response delivered, unwrapped; on either path word_count,
\* sentence_count and complexity_level are functions of the prompt alone.
C10_ScoresAsDelivered ==
    (pc = "done" /\ result.kind = "returned") =>
        /\ result.value.metrics.word_count = WordCount(prompt)
        /\ result.value.metrics.sentence_count = SentenceCount(prompt)
        /\ result.value.metrics.complexity_level = _assess_complexity(prompt)
        /\ path = "EXTERNAL" =>
              \A k \in Range(score_keys) :
                  MetricOf(result.value.metrics, k) = Scalar(Delivered(k))

\* an accepted response whose overall score is not the mean of its five
\* dimension scores
C10_OverallKept ==
    /\ pc = "done"
    /\ path = "EXTERNAL"
    /\ result.kind = "returned"
    /\ prompt = "help me"
    /\ result.value.metrics.overall_score = Num(5000)
    /\ result.value.metrics.clarity_score = Num(8000)
    /\ result.value.metrics.word_count = 2

\* a sequence of at most five entries
AtMostFive(v) == v.t = "list" /\ Len(v.items) <= 5

\* C11: every result returned, on the EXTERNAL path as on the FALLBACK path,
\* has strengths, weaknesses and suggestions of at most 5 entries each.
C11_ListsAtMostFive ==
    (pc = "done" /\ result.kind = "returned") =>
        /\ AtMostFive(result.value.strengths)
        /\ AtMostFive(result.value.weaknesses)
        /\ AtMostFive(result.value.suggestions)

\* C13: a returned result whose confidence_level is 0.7 comes from the
\* FALLBACK path.
C13_MarksHeuristicOrigin ==
    (pc = "done" /\ result.kind = "returned"
        /\ EqualsNumber(result.value.confidence_level, 700))
        => path = "FALLBACK"

\* C14: whenever the FALLBACK path is taken, the result returned has
\* confidence_level 0.7.
C14_FallbackConfidence ==
    (pc = "done" /\ path = "FALLBACK") =>
        /\ result.kind = "returned"
        /\ result.value.confidence_level = Num(700)

\* a call that fell back because the generation call raised
C14_FellBackOnApiError ==
    /\ pc = "done"
    /\ path = "FALLBACK"
    /\ external = ApiError
    /\ result.kind = "returned"
    /\ result.value.confidence_level = Num(700)

\* the number of places of the text where the word stands
OccurrencesOf(word, text) ==
    Cardinality({i \in 1..(Len(text) - Len(word) + 1) :
                    SubSeq(text, i, i + Len(word) - 1) = word})

\* the occurrences in the text of the words from the i-th on, added up
RECURSIVE OccurrencesFrom(_, _, _)
OccurrencesFrom(words, text, i) ==
    IF i > Len(words) THEN 0
    ELSE OccurrencesOf(words[i], text) + OccurrencesFrom(words, text, i + 1)

\* the base of the clarity score for a number of words
ClarityBase(word_count) ==
    IF word_count < 5 THEN 3000
    ELSE IF word_count < 15 THEN 5000
    ELSE IF word_count < 50 THEN 7000
    ELSE 8000

\* C17: the clarity score is the clamp of the word-count base, minus 1.0
\* for each occurrence of a vague word, plus 0.5 for each occurrence of a
\* clear-action word, plus 0.5 for a question mark, matching being
\* case-insensitive substring containment.
C17_ClarityPerOccurrence ==
    pc \in {"scored", "analyzed"} =>
        result.clarity =
            Max(1000, Min(10000,
                ClarityBase(WordCount(prompt))
                - 1000 * OccurrencesFrom(clarity_vague_words, Lower(prompt), 1)
                + 500 * OccurrencesFrom(clarity_clear_words, Lower(prompt), 1)
                + (IF Contains(prompt, "?") THEN 500 ELSE 0)))

\* C20: for a prompt of fewer than 15 words the weaknesses of the heuristic
\* analysis contain the note that the prompt is too brief.
C20_BriefIsNoted ==
    (pc = "analyzed" /\ WordCount(prompt) < 15) =>
        Str("Prompt is too brief and lacks detail")
            \in Range(Get(Get(ai_analysis, "analysis", None), "weaknesses", None).items)

\* C12: _improve_prompt applied to its own output returns that output.
C12_ImproveIdempotent ==
    pc = "improved_again" => result.improved_prompt = result.first

\* a long prompt that got both sentences, and no third one afterwards
C12_BothSentencesOnce ==
    /\ pc = "improved_again"
    /\ prompt = LongRequest
    /\ result.first = LongRequest \o improve_format_sentence \o improve_length_sentence
    /\ result.improved_prompt = result.first

\* the level the thresholds give to a number of words
LevelOf(word_count) ==
    IF word_count < 20 THEN "Simple"
    ELSE IF word_count < 50 THEN "Moderate"
    ELSE IF word_count < 100 THEN "Complex"
    ELSE "Advanced"

\* C15: complexity_level is decided by word_count alone: below 20 Simple,
\* 20 to 49 Moderate, 50 to 99 Complex, 100 and more Advanced.
C15_ComplexityByWordCount ==
    pc = "assessed" => result.complexity_level = LevelOf(result.word_count)

\* exactly 100 words are Advanced
C15_HundredIsAdvanced ==
    /\ pc = "assessed"
    /\ prompt = Repeated("go", 100)
    /\ result.word_count = 100
    /\ result.complexity_level = "Advanced"

(***************************************************************************)
(* PromptValidator (src/utils/validators.py)                               *)
(***************************************************************************)
min_length == 10
max_length == 5000

\* the limits applied to the text as typed
validate_length_untrimmed(p) ==
    /\ ~(Len(p) < min_length)
    /\ ~(Len(p) > max_length)

\* _validate_length raises nothing: the trimmed text has at least
\* min_length characters and the text at most max_length
_validate_length(p) ==
    /\ ~(Len(Strip(p)) < min_length)
    /\ ~(Len(p) > max_length)

\* re.search(r'(.)\1{10,}', prompt): a character other than a newline that
\* occurs eleven times in a row
HasRepetition(p) ==
    \E i \in 1..(Len(p) - 10) :
        /\ CharAt(p, i) # "\n"
        /\ \A j \in 1..10 : CharAt(p, i + j) = CharAt(p, i)

\* _validate_content raises nothing
_validate_content(p) ==
    /\ Strip(p) # ""
    /\ ~(WordCount(p) < 3)
    /\ ~HasRepetition(p)

\* _validate_encoding raises nothing: the texts of the model are all
\* encodable (no lone surrogate is in the alphabet)
_validate_encoding(p) == TRUE

\* validate_prompt: True unless one of the checks raises ValidationError;
\* _check_suspicious_patterns only warns
validate_prompt(p) ==
    /\ _validate_length(p)
    /\ _validate_content(p)
    /\ _validate_encoding(p)

(***************************************************************************)
(* CacheManager (src/utils/cache_manager.py).  cache_store holds its       *)
(* entries in insertion order; times are in hours.                         *)
(***************************************************************************)
ttl_hours == 24

\* generate_key: the MD5 digest of the text, which differs for any two of
\* the texts of the model
generate_key(p) == "md5:" \o p

\* an expiry that begins at the age of ttl_hours
expired_from_ttl(timestamp) == now - timestamp >= ttl_hours

\* _is_expired, read at the current time
_is_expired(timestamp) == now - timestamp > ttl_hours

\* key in st.session_state.cache_store
InStore(store, key) == \E i \in DOMAIN store : store[i].key = key

EntryOf(store, key) == store[CHOOSE i \in DOMAIN store : store[i].key = key]

\* a get that does not return what the heuristic analyzer produced
cache_get_external_only(store, key) ==
    IF /\ InStore(store, key)
       /\ ~_is_expired(EntryOf(store, key).timestamp)
       /\ EntryOf(store, key).data.confidence_level # Num(RuleBasedConfidence)
    THEN [hit |-> TRUE, data |-> EntryOf(store, key).data]
    ELSE [hit |-> FALSE]

\* get: the value returned, None for an absent or an expired entry
cache_get(store, key) ==
    IF InStore(store, key) /\ ~_is_expired(EntryOf(store, key).timestamp)
    THEN [hit |-> TRUE, data |-> EntryOf(store, key).data]
    ELSE [hit |-> FALSE]

\* get: the store it leaves, the expired entry deleted
store_after_get(store, key) ==
    IF InStore(store, key) /\ _is_expired(EntryOf(store, key).timestamp)
    THEN SelectSeq(store, LAMBDA e : e.key # key)
    ELSE store

\* st.session_state.cache_store[key] = {...}: an existing key keeps its place
Assigned(store, key, data) ==
    IF InStore(store, key)
    THEN [i \in DOMAIN store |->
            IF store[i].key = key
            THEN [key |-> key, data |-> data, timestamp |-> now]
            ELSE store[i]]
    ELSE Append(store, [key |-> key, data |-> data, timestamp |-> now])

\* _cleanup_expired
_cleanup_expired(store) == SelectSeq(store, LAMBDA e : ~_is_expired(e.timestamp))

\* set: the store it leaves
cache_set(store, key, data) == _cleanup_expired(Assigned(store, key, data))

(***************************************************************************)
(* UIComponents (src/ui/components.py)                                     *)
(***************************************************************************)
\* render_prompt_input, line 29: the text of the input area, trimmed
render_prompt_input(typed) == Strip(typed)

\* `score >= 8` and the format `:.1f` raise TypeError for a value that is
\* no number
ScoreRenders(v) == IsNumber(v)

\* the number of digits in s
DigitCount(s) == Cardinality({i \in 1..Len(s) : IsDigit(CharAt(s, i))})

\* int(s * 100) for a str s, line 53: the str is repeated 100 times and then
\* parsed as a decimal literal, which is made of digits with single
\* underscores between them (white space and a sign may only stand at the
\* ends of a literal, where the repetition leaves none) and may have at most
\* 4300 digits
IntOfRepeated(s) ==
    /\ s # ""
    /\ IsDigit(CharAt(s, 1))
    /\ IsDigit(CharAt(s, Len(s)))
    /\ \A i \in 2..Len(s) :
         \/ IsDigit(CharAt(s, i))
         \/ CharAt(s, i) = "_" /\ IsDigit(CharAt(s, i - 1))
    /\ DigitCount(s) * 100 <= 4300

\* int(result.confidence_level * 100), line 53: a str is repeated and then
\* parsed; nan and infinity cannot be converted
ConfidenceRenders(v) ==
    \/ v.t \in {"num", "bool"}
    \/ v.t = "str" /\ IntOfRepeated(v.s)

\* `items and items[0] != ...` followed by items[:4], lines 88-89, 103-104
\* and 118-119: a truthy value has to be a sequence
ListRenders(v) == Falsy(v) \/ v.t \in {"str", "list"}

\* `improved_prompt and improved_prompt.strip() != ...`, line 72
ImprovedRenders(v) == Falsy(v) \/ v.t = "str"

\* render_evaluation_results runs to its end for the result r
Renders(r) ==
    /\ ScoreRenders(r.metrics.overall_score)
    /\ ConfidenceRenders(r.confidence_level)
    /\ ListRenders(r.strengths)
    /\ ListRenders(r.weaknesses)
    /\ ListRenders(r.suggestions)
    /\ ImprovedRenders(r.improved_prompt)

(***************************************************************************)
(* The app (src/app.py): one session, its cache and its history            *)
(***************************************************************************)
MaxHistory == 2
MaxNow == 48
Day == 24

\* what the user may leave in the input area
TypedTexts ==
    {"", "  fix this ", "abcdefghijklmnop", "aaaaaaaaaaaa bb cc",
     " Write a story ", "Summarize the report."}

\* the texts handed to validate_prompt directly
ValidatorTexts == {"fix this", "  a b c     ", "Write a story"}

\* how the external call of an analysis may end
AppExternals ==
    {ApiError,
     Text(Render(GoodResponse)),
     Text(Render(Put(GoodResponse, "analysis", StrList(analysis_keys)))),
     Text(Render(PutIn(GoodResponse, "analysis", "strengths", Num(5000))))}

\* lines 88-97 of the analyzer for the texts and the external outcomes of
\* the model: what _get_ai_analysis returns and the analysis in use
AppAnalyses ==
    [p \in {render_prompt_input(typed) : typed \in TypedTexts} |->
        [ext \in AppExternals |->
            [got |-> _get_ai_analysis(ext),
             in_use |-> AnalysisInUse(_get_ai_analysis(ext).value, p)]]]

\* line 62: the button is disabled
ButtonDisabled(prompt_text) == Len(Strip(prompt_text)) < 10

\* an action that does not reach the analyzer
NotAnalyzed ==
    /\ external' = [kind |-> "none"]
    /\ parsed' = NotReached
    /\ validation' = NotValidated
    /\ plausible' = "not_reached"
    /\ path' = "none"
    /\ ai_analysis' = None

\* where a run of main stands after the click on the analyze button: after
\* cache.get found no result (line 78), inside comprehensive_analysis (line
\* 88), or before the display of a result taken from the cache (line 82) or
\* just stored in it (line 89)
RunPositions == {"missed", "analyzing", "loaded", "computed"}

\* no run of main is under way
NoRun == pc \notin RunPositions

\* lines 53-80: the user leaves typed in the input area and clicks the
\* analyze button.  A disabled button reports no click and a prompt that is
\* not valid ends the run; otherwise cache.get is called, which deletes an
\* entry that has expired and returns the cached result or None.
AnalyzePrompt(typed) ==
    /\ NoRun
    /\ Len(evaluation_history) < MaxHistory
    /\ prompt' = render_prompt_input(typed)
    /\ parsed' = NotReached
    /\ validation' = NotValidated
    /\ plausible' = "not_reached"
    /\ path' = "none"
    /\ ai_analysis' = None
    /\ UNCHANGED <<evaluation_history, now>>
    /\ UNCHANGED service_vars
    /\ IF ButtonDisabled(prompt') \/ prompt' = ""
       THEN /\ pc' = "not_run"
            /\ external' = [kind |-> "none"]
            /\ result' = NoResult
            /\ UNCHANGED cache_store
       ELSE IF ~validate_prompt(prompt')
       THEN /\ pc' = "rejected"
            /\ external' = [kind |-> "none"]
            /\ result' = NoResult
            /\ UNCHANGED cache_store
       ELSE IF cache_get(cache_store, generate_key(prompt')).hit
       THEN /\ pc' = "loaded"
            /\ external' = [kind |-> "none"]
            /\ result' =
                  Returned(cache_get(cache_store, generate_key(prompt')).data)
            /\ UNCHANGED cache_store
       ELSE /\ pc' = "missed"
            /\ external' = [kind |-> "none"]
            /\ result' = NoResult
            /\ cache_store' =
                  store_after_get(cache_store, generate_key(prompt'))

\* lines 85-88: the spinner is shown and the analyzer is called, which hands
\* the prompt to the external collaborator and waits
CallsAnalyzer ==
    /\ pc = "missed"
    /\ pc' = "analyzing"
    /\ external' = Pending
    /\ UNCHANGED <<prompt, parsed, validation, plausible, path, ai_analysis,
                   result, cache_store, evaluation_history, now>>
    /\ UNCHANGED service_vars

\* lines 88-99: the external call ends as ext says, at whatever time it
\* takes, and comprehensive_analysis is left; a result is stored in the
\* cache at that time, an exception is caught and leaves no result
AnalysisEnds(ext, analysed) ==
    /\ pc = "analyzing"
    /\ external' = ext
    /\ DeliverFor(prompt, analysed.got, analysed.in_use)
    /\ IF result'.kind = "returned"
       THEN /\ pc' = "computed"
            /\ cache_store' =
                  cache_set(cache_store, generate_key(prompt), result'.value)
       ELSE /\ pc' = "failed"
            /\ UNCHANGED cache_store
    /\ UNCHANGED <<prompt, evaluation_history, now>>
    /\ UNCHANGED service_vars

\* lines 102-112: the result is rendered and then appended to the history,
\* with the time of the append; an exception of the rendering leaves main
Display ==
    /\ pc \in {"loaded", "computed"}
    /\ IF ~Renders(result.value)
       THEN pc' = "render_failed" /\ UNCHANGED evaluation_history
       ELSE /\ pc' = IF pc = "loaded" THEN "cached" ELSE "analyzed"
            /\ evaluation_history' =
                   Append(evaluation_history,
                          [prompt |-> prompt,
                           result |-> result.value,
                           timestamp |-> now])
    /\ UNCHANGED <<prompt, external, parsed, validation, plausible, path,
                   ai_analysis, result, cache_store, now>>
    /\ UNCHANGED service_vars

\* lines 82, 85 and 102-103: the user has acted on a widget while main ran,
\* and the run is ended at its next display call: before the analyzer is
\* called, or before the append
Stopped ==
    /\ pc \in {"missed", "loaded", "computed"}
    /\ pc' = "stopped"
    /\ UNCHANGED <<prompt, external, parsed, validation, plausible, path,
                   ai_analysis, result, cache_store, evaluation_history, now>>
    /\ UNCHANGED service_vars

\* validate_prompt called on a text
Validate(p) ==
    /\ NoRun
    /\ pc' = "validated"
    /\ prompt' = p
    /\ NotAnalyzed
    /\ result' = [kind |-> "validation", valid |-> validate_prompt(p)]
    /\ UNCHANGED app_vars

\* render_sidebar_content, lines 258-263: the history is cleared
ClearHistory ==
    /\ NoRun
    /\ evaluation_history # <<>>
    /\ pc' = "cleared"
    /\ evaluation_history' = <<>>
    /\ UNCHANGED <<prompt, external, parsed, validation, plausible, path,
                   ai_analysis, result, cache_store, now>>
    /\ UNCHANGED service_vars

\* time passes, between two actions of the user or while main runs
TimePasses ==
    /\ now + Day <= MaxNow
    /\ now' = now + Day
    /\ UNCHANGED <<pc, prompt, external, parsed, validation, plausible, path,
                   ai_analysis, result, cache_store, evaluation_history>>
    /\ UNCHANGED service_vars

AppInit == Init

AppNext ==
    \/ \E typed \in TypedTexts : AnalyzePrompt(typed)
    \/ CallsAnalyzer
    \/ \E ext \in AppExternals : AnalysisEnds(ext, AppAnalyses[prompt][ext])
    \/ Display
    \/ Stopped
    \/ \E p \in ValidatorTexts : Validate(p)
    \/ ClearHistory
    \/ TimePasses

AppSpec == AppInit /\ [][AppNext]_vars

\* C16: a prompt of fewer than 10 characters after trimming is rejected
\* upstream: validate_prompt is false for it, and an analyze action of the
\* app on it does not reach the analyzer, writes nothing to the cache and
\* appends nothing to evaluation_history.
C16_ShortPromptRejected ==
    [][(/\ Len(Strip(prompt')) < min_length
        /\ pc' \in {"not_run", "rejected", "loaded", "missed", "analyzing",
                    "computed", "cached", "analyzed", "failed",
                    "render_failed", "stopped", "validated"})
       => /\ ~validate_prompt(prompt')
          /\ pc' \in {"not_run", "rejected", "validated"}
          /\ (pc' = "validated" => ~result'.valid)
          /\ external' = [kind |-> "none"]
          /\ cache_store' = cache_store
          /\ evaluation_history' = evaluation_history]_vars

\* "fix this" was submitted after an analysis that filled the cache and the
\* history, and both are as they were
C16_ShortPromptAfterAnalysis ==
    /\ pc = "not_run"
    /\ prompt = "fix this"
    /\ Len(cache_store) = 1
    /\ Len(evaluation_history) = 1

(***************************************************************************)
(* Several calls of comprehensive_analysis at once.  Every call has its    *)
(* own analyzer, service manager and service (app.py line 87, lines        *)
(* 449-450), so all it works on are the locals of its frame: here each     *)
(* variable holds one value per call.                                      *)
(***************************************************************************)
MaxCalls == 2
Calls == 1..MaxCalls

ConcurrentPrompts ==
    {"help me", "Write a 500 word essay about marketing for beginners."}

ConcurrentExternals ==
    {ApiError,
     Text(Render(GoodResponse)),
     Text(Render(PutIn(GoodResponse, "scores", "specificity", Sevens(1)))),
     Text("I cannot analyze this prompt.")}

\* lines 458-491 for the external outcomes of the model, computed once:
\* what _get_ai_analysis returns
ConcurrentLoaded ==
    [ext \in ConcurrentExternals \cup {Pending, [kind |-> "none"]} |->
        _get_ai_analysis(ext)]

\* line 94 for the prompts of the model, computed once
ConcurrentHeuristic ==
    [p \in ConcurrentPrompts \cup {""} |-> _rule_based_analysis(p)]

\* one frame holding the locals of every call
SharedFrame(i) == 1

\* the frame whose locals call i reads: its own
FrameOf(i) == i

ConcurrentInit ==
    /\ pc = [i \in Calls |-> "idle"]
    /\ prompt = [i \in Calls |-> ""]
    /\ external = [i \in Calls |-> [kind |-> "none"]]
    /\ parsed = [i \in Calls |-> NotReached]
    /\ validation = [i \in Calls |-> NotValidated]
    /\ plausible = [i \in Calls |-> "not_reached"]
    /\ path = [i \in Calls |-> "none"]
    /\ ai_analysis = [i \in Calls |-> None]
    /\ result = [i \in Calls |-> NoResult]
    /\ SessionStart

\* lines 75-88 and 441-456: call i starts on p and waits for the external
\* collaborator
Start(i, p) ==
    /\ pc[i] = "idle"
    /\ pc' = [pc EXCEPT ![i] = "ATTEMPT_EXTERNAL"]
    /\ prompt' = [prompt EXCEPT ![i] = p]
    /\ external' = [external EXCEPT ![i] = Pending]
    /\ UNCHANGED <<parsed, validation, plausible, path, ai_analysis, result>>
    /\ UNCHANGED app_vars

\* lines 450-456: the external call of call i ends
Respond(i, ext) ==
    /\ pc[i] = "ATTEMPT_EXTERNAL"
    /\ pc' = [pc EXCEPT ![i] = "PARSE_RESPONSE"]
    /\ external' = [external EXCEPT ![i] = ext]
    /\ UNCHANGED <<prompt, parsed, validation, plausible, path, ai_analysis,
                   result>>
    /\ UNCHANGED app_vars

\* lines 458-491 and 88: call i parses and validates what it received and
\* binds ai_analysis
Loads(i, got) ==
    /\ pc[i] = "PARSE_RESPONSE"
    /\ pc' = [pc EXCEPT ![i] = "ARBITRATE"]
    /\ parsed' = [parsed EXCEPT ![i] = got.parsed]
    /\ validation' = [validation EXCEPT ![i] = got.validation]
    /\ ai_analysis' = [ai_analysis EXCEPT ![i] = got.value]
    /\ UNCHANGED <<prompt, external, plausible, path, result>>
    /\ UNCHANGED app_vars

ParseResponse(i) == Loads(i, ConcurrentLoaded[external[FrameOf(i)]])

\* lines 91-97: call i keeps the external analysis or replaces it by the
\* heuristic one
Chooses(i, value, p) ==
    /\ pc[i] = "ARBITRATE"
    /\ pc' = [pc EXCEPT ![i] = "COMBINE"]
    /\ plausible' = [plausible EXCEPT ![i] = Plausibility(value)]
    /\ path' = [path EXCEPT ![i] =
                    IF UseFallback(value) THEN "FALLBACK" ELSE "EXTERNAL"]
    /\ ai_analysis' = [ai_analysis EXCEPT ![i] =
                    IF UseFallback(value) THEN ConcurrentHeuristic[p]
                    ELSE value]
    /\ UNCHANGED <<prompt, external, parsed, validation, result>>
    /\ UNCHANGED app_vars

ArbitrateCall(i) == Chooses(i, ai_analysis[FrameOf(i)], prompt[FrameOf(i)])

\* lines 99-123: call i builds its result and returns it
Combine(i) ==
    /\ pc[i] = "COMBINE"
    /\ pc' = [pc EXCEPT ![i] = "done"]
    /\ result' = [result EXCEPT ![i] =
                    AnalysisResult(ai_analysis[FrameOf(i)], prompt[FrameOf(i)])]
    /\ UNCHANGED <<prompt, external, parsed, validation, plausible, path,
                   ai_analysis>>
    /\ UNCHANGED app_vars

\* the caller of call i has taken the result; a later call may follow
Forget(i) ==
    /\ pc[i] = "done"
    /\ pc' = [pc EXCEPT ![i] = "idle"]
    /\ prompt' = [prompt EXCEPT ![i] = ""]
    /\ external' = [external EXCEPT ![i] = [kind |-> "none"]]
    /\ parsed' = [parsed EXCEPT ![i] = NotReached]
    /\ validation' = [validation EXCEPT ![i] = NotValidated]
    /\ plausible' = [plausible EXCEPT ![i] = "not_reached"]
    /\ path' = [path EXCEPT ![i] = "none"]
    /\ ai_analysis' = [ai_analysis EXCEPT ![i] = None]
    /\ result' = [result EXCEPT ![i] = NoResult]
    /\ UNCHANGED app_vars

ConcurrentNext ==
    \E i \in Calls :
        \/ \E p \in ConcurrentPrompts : Start(i, p)
        \/ \E ext \in ConcurrentExternals : Respond(i, ext)
        \/ ParseResponse(i)
        \/ ArbitrateCall(i)
        \/ Combine(i)
        \/ Forget(i)

ConcurrentSpec == ConcurrentInit /\ [][ConcurrentNext]_vars

\* what comprehensive_analysis returns for p when it runs alone and the
\* external call ends as ext says
Alone(p, ext) ==
    AnalysisResult(AnalysisInUse(_get_ai_analysis(ext).value, p), p)

AloneResults ==
    [p \in ConcurrentPrompts |->
        [ext \in ConcurrentExternals |-> Alone(p, ext)]]

\* the locals of call j
LocalsOf(j) ==
    <<pc[j], prompt[j], external[j], parsed[j], validation[j], plausible[j],
      path[j], ai_analysis[j], result[j]>>

\* C18: analyses share no mutable state: under every interleaving a call
\* returns the result it returns when run alone on the same prompt with the
\* same external response, and a step of one call leaves the data of every
\* other call as it was.
C18_CallsAreIsolated ==
    [][/\ \A i \in Calls :
            pc'[i] = "done" => result'[i] = AloneResults[prompt'[i]][external'[i]]
       /\ \A i \in Calls, j \in Calls :
            (i # j /\ pc'[i] # pc[i]) => LocalsOf(j)' = LocalsOf(j)]_vars

\* two calls on different prompts have both finished, one on the external
\* path and one on the fallback path
C18_TwoCallsFinished ==
    /\ pc[1] = "done" /\ pc[2] = "done"
    /\ prompt[1] # prompt[2]
    /\ path[1] = "EXTERNAL" /\ path[2] = "FALLBACK"
    /\ result[1] # result[2]

(***************************************************************************)
(* Runs of _rule_based_analysis (lines 138-181), step by step.  All a run  *)
(* reads is its argument and the locals of its frame: the lexicons are     *)
(* literals of the scorers, the lists are made anew by every call (lines   *)
(* 325 and 353), and self.debug, the one attribute read, decides only      *)
(* what is printed.  Here pc, prompt, result and ai_analysis hold one      *)
(* value per caller: result[i] is the frame of the run of caller i and     *)
(* ai_analysis[i] the dict the run returned to line 94.                    *)
(***************************************************************************)
MaxEarlier == 1

HeuristicPrompts == {"help me", "Summarize the thing in a table, maybe."}

\* the frame of a run that has computed nothing yet; earlier counts the
\* runs the caller made before this one
NewFrame(p, earlier) ==
    [prompt |-> p, clarity_score |-> 0, specificity_score |-> 0,
     context_score |-> 0, constraint_score |-> 0, goal_score |-> 0,
     strengths |-> <<>>, weaknesses |-> <<>>, suggestions |-> <<>>,
     improved_prompt |-> "", earlier |-> earlier]

HeuristicInit ==
    /\ pc = [i \in Calls |-> "idle"]
    /\ prompt = [i \in Calls |-> ""]
    /\ external = [i \in Calls |-> [kind |-> "none"]]
    /\ parsed = [i \in Calls |-> NotReached]
    /\ validation = [i \in Calls |-> NotValidated]
    /\ plausible = [i \in Calls |-> "not_reached"]
    /\ path = [i \in Calls |-> "none"]
    /\ ai_analysis = [i \in Calls |-> None]
    /\ result = [i \in Calls |-> NewFrame("", 0)]
    /\ SessionStart

\* values kept on the analyzer, which every run reads and writes
InstanceAttributes(i) == result[1]

\* what the run of caller i reads: the parameter and the locals of its own
\* frame
RunLocals(i) == result[i]

\* line 94 and lines 138-143: caller i calls _rule_based_analysis on p
RunStarts(i, p) ==
    /\ pc[i] = "idle"
    /\ pc' = [pc EXCEPT ![i] = "SCORE"]
    /\ prompt' = [prompt EXCEPT ![i] = p]
    /\ result' = [result EXCEPT ![i] = NewFrame(p, result[i].earlier)]
    /\ UNCHANGED <<external, parsed, validation, plausible, path,
                   ai_analysis>>
    /\ UNCHANGED app_vars

\* lines 146-150: the five scores, from the prompt that locals holds
Scores(i, locals) ==
    /\ pc[i] = "SCORE"
    /\ pc' = [pc EXCEPT ![i] = "FEEDBACK"]
    /\ result' = [result EXCEPT
          ![i].clarity_score = _calculate_clarity_score(locals.prompt),
          ![i].specificity_score =
              _calculate_specificity_score(locals.prompt),
          ![i].context_score = _calculate_context_score(locals.prompt),
          ![i].constraint_score = _calculate_constraint_score(locals.prompt),
          ![i].goal_score = _calculate_goal_score(locals.prompt)]
    /\ UNCHANGED <<prompt, external, parsed, validation, plausible, path,
                   ai_analysis>>
    /\ UNCHANGED app_vars

RunScores(i) == Scores(i, RunLocals(i))

\* lines 158-161: the feedback, from the prompt and the scores that locals
\* holds and from the weaknesses just found
Feeds(i, locals, weaknesses) ==
    /\ pc[i] = "FEEDBACK"
    /\ pc' = [pc EXCEPT ![i] = "RETURN"]
    /\ result' = [result EXCEPT
          ![i].strengths =
              _identify_strengths(locals.prompt, locals.clarity_score,
                  locals.specificity_score, locals.context_score,
                  locals.constraint_score, locals.goal_score),
          ![i].weaknesses = weaknesses,
          ![i].suggestions = _generate_suggestions(locals.prompt, weaknesses),
          ![i].improved_prompt = _improve_prompt(locals.prompt, weaknesses)]
    /\ UNCHANGED <<prompt, external, parsed, validation, plausible, path,
                   ai_analysis>>
    /\ UNCHANGED app_vars

RunFeedback(i) ==
    Feeds(i, RunLocals(i),
          _identify_weaknesses(RunLocals(i).prompt,
              RunLocals(i).clarity_score, RunLocals(i).specificity_score,
              RunLocals(i).context_score, RunLocals(i).constraint_score,
              RunLocals(i).goal_score))

\* lines 163-181 and line 94: the dict is built from what locals holds and
\* returned to the caller
Hands(i, locals) ==
    /\ pc[i] = "RETURN"
    /\ pc' = [pc EXCEPT ![i] = "done"]
    /\ ai_analysis' = [ai_analysis EXCEPT ![i] =
          Report(locals.clarity_score, locals.specificity_score,
                 locals.context_score, locals.constraint_score,
                 locals.goal_score, locals.strengths, locals.weaknesses,
                 locals.suggestions, locals.improved_prompt)]
    /\ UNCHANGED <<prompt, external, parsed, validation, plausible, path,
                   result>>
    /\ UNCHANGED app_vars

RunReturns(i) == Hands(i, RunLocals(i))

\* caller i has used what the run returned; it may call again
RunForgotten(i) ==
    /\ pc[i] = "done"
    /\ result[i].earlier < MaxEarlier
    /\ pc' = [pc EXCEPT ![i] = "idle"]
    /\ prompt' = [prompt EXCEPT ![i] = ""]
    /\ ai_analysis' = [ai_analysis EXCEPT ![i] = None]
    /\ result' = [result EXCEPT ![i] = NewFrame("", result[i].earlier + 1)]
    /\ UNCHANGED <<external, parsed, validation, plausible, path>>
    /\ UNCHANGED app_vars

HeuristicNext ==
    \E i \in Calls :
        \/ \E p \in HeuristicPrompts : RunStarts(i, p)
        \/ RunScores(i)
        \/ RunFeedback(i)
        \/ RunReturns(i)
        \/ RunForgotten(i)

HeuristicSpec == HeuristicInit /\ [][HeuristicNext]_vars

\* C19: the heuristic analyzer is deterministic: two runs on the same
\* prompt text, whatever has run before them and whatever runs meanwhile,
\* return the same scores, strengths, weaknesses, suggestions, improved
\* prompt and confidence.
C19_HeuristicDeterministic ==
    \A i \in Calls, j \in Calls :
        (pc[i] = "done" /\ pc[j] = "done" /\ prompt[i] = prompt[j])
        => ai_analysis[i] = ai_analysis[j]

\* two runs on "help me" have returned: one the first of its caller, the
\* other made after its caller had run the analyzer on another text, with
\* weaknesses and scores to compare
C19_TwoHeuristicRuns ==
    /\ pc[1] = "done" /\ pc[2] = "done"
    /\ prompt[1] = "help me" /\ prompt[2] = "help me"
    /\ result[1].earlier = 0 /\ result[2].earlier = 1
    /\ result[1].weaknesses # <<>>
    /\ ai_analysis[2].t = "dict"

\* what a run returns is what _rule_based_analysis as a whole gives for
\* its prompt
RunsAsAWhole ==
    \A i \in Calls :
        pc[i] = "done" => ai_analysis[i] = _rule_based_analysis(prompt[i])

(***************************************************************************)
(* _generate_suggestions on the lists _identify_weaknesses can return      *)
(***************************************************************************)
\* the weaknesses of lines 355-373, in the order they are appended
weakness_kinds ==
    <<"Language could be clearer and less ambiguous",
      "Needs more specific requirements and details",
      "Lacks sufficient background context",
      "Missing clear formatting and style guidelines",
      "Desired outcome could be more clearly defined",
      "Prompt is too brief and lacks detail",
      "Contains vague language that could be more specific">>

default_weakness == "Minor improvements possible in overall clarity"

\* the weaknesses chosen, in the order of the checks, cut as line 378 cuts
WeaknessesOf(chosen) ==
    LET picked == SelectSeq([i \in DOMAIN weakness_kinds |-> i],
                            LAMBDA i : i \in chosen)
    IN  FirstFive([k \in DOMAIN picked |-> weakness_kinds[picked[k]]])

WeaknessLists ==
    {WeaknessesOf(chosen) : chosen \in (SUBSET DOMAIN weakness_kinds) \ {{}}}
    \cup {<<default_weakness>>}

SuggestInit ==
    /\ pc = "idle"
    /\ prompt = ""
    /\ external = [kind |-> "none"]
    /\ parsed = NotReached
    /\ validation = NotValidated
    /\ plausible = "not_reached"
    /\ path = "none"
    /\ ai_analysis \in {StrList(weaknesses) : weaknesses \in WeaknessLists}
    /\ result = NoResult
    /\ SessionStart

\* line 163: suggestions = self._generate_suggestions(prompt, weaknesses)
Suggest ==
    /\ pc = "idle"
    /\ pc' = "suggested"
    /\ result' =
          [kind |-> "suggestions",
           weaknesses |-> [i \in DOMAIN ai_analysis.items |-> ai_analysis.items[i].s],
           suggestions |->
              _generate_suggestions(prompt,
                  [i \in DOMAIN ai_analysis.items |-> ai_analysis.items[i].s])]
    /\ UNCHANGED <<prompt, external, parsed, validation, plausible, path,
                   ai_analysis>>
    /\ UNCHANGED app_vars

SuggestSpec == SuggestInit /\ [][Suggest]_vars

\* the patterns of the spec and the suggestion of each
SuggestionPatterns ==
    <<[words |-> <<"clearer", "ambiguous">>,
       suggestion |-> "Replace vague terms with specific, concrete language"],
      [words |-> <<"specific", "details">>,
       suggestion |-> "Add specific numbers, formats, or measurable criteria"],
      [words |-> <<"context">>,
       suggestion |-> "Provide background information about your situation or goals"],
      [words |-> <<"formatting", "guidelines">>,
       suggestion |-> "Specify desired output format (length, style, structure)"],
      [words |-> <<"outcome", "goal">>,
       suggestion |-> "Clearly state what success looks like for this task"],
      [words |-> <<"brief", "detail">>,
       suggestion |-> "Expand the prompt with more context and requirements"],
      [words |-> <<"vague">>,
       suggestion |-> "Replace general terms with specific, actionable language"]>>

MatchesPattern(weakness, pattern) ==
    \E k \in DOMAIN pattern.words : Contains(weakness, pattern.words[k])

MatchesAny(weakness) ==
    \E n \in DOMAIN SuggestionPatterns :
        MatchesPattern(weakness, SuggestionPatterns[n])

\* C21: _generate_suggestions returns, in the order of the weaknesses, one
\* canned suggestion for each weakness that matches a pattern, duplicates
\* kept; it returns the three generic suggestions exactly when no weakness
\* matched; it never returns more than 5 entries.
C21_SuggestionsMirrorWeaknesses ==
    pc = "suggested" =>
        LET matched == SelectSeq(result.weaknesses, MatchesAny)
        IN  /\ Len(result.suggestions) <= 5
            /\ (result.suggestions = generic_suggestions) <=> (matched = <<>>)
            /\ matched # <<>> =>
                /\ Len(result.suggestions) = Len(matched)
                /\ \A k \in DOMAIN matched :
                     \E n \in DOMAIN SuggestionPatterns :
                        /\ MatchesPattern(matched[k], SuggestionPatterns[n])
                        /\ result.suggestions[k] = SuggestionPatterns[n].suggestion

\* two weaknesses of the list were given the same suggestion
C21_DuplicateKept ==
    /\ pc = "suggested"
    /\ Len(result.weaknesses) = 3
    /\ Len(result.suggestions) = 3
    /\ result.suggestions[1] = result.suggestions[3]

\* C22: every kind of weakness _identify_weaknesses emits is given its own
\* suggestion, the n-th kind the suggestion of the n-th pattern; the
\* vague-language weakness is given the vague-language suggestion.
C22_OwnSuggestion ==
    pc = "suggested" =>
        \A k \in DOMAIN result.weaknesses :
            \A n \in DOMAIN weakness_kinds :
                result.weaknesses[k] = weakness_kinds[n]
                => result.suggestions[k] = SuggestionPatterns[n].suggestion

\* the plausible analysis object as the external collaborator may wrap it:
\* bare, in a json fence, inside other text, followed by text with braces
WrappedGoodResponses ==
    {Render(GoodResponse),
     FenceJson \o "\n" \o Render(GoodResponse) \o "\n" \o Fence,
     "Here is the analysis: " \o Render(GoodResponse) \o " I hope it helps.",
     Render(GoodResponse) \o " {see above}"}

\* C23: a raw response made of one valid, plausible analysis object,
\* optionally in a json fence and optionally preceded or followed by other
\* text, also text with braces, is accepted and gives the result of the
\* bare object; a text from which no object can be parsed leads to the
\* fallback.
C23_WrappedObjectAccepted ==
    pc = "done" =>
        /\ external \in {Text(raw) : raw \in WrappedGoodResponses}
            => /\ path = "EXTERNAL"
               /\ result = AnalysisResult(GoodResponse, prompt)
        /\ (external.kind = "text" /\ ~parsed.ok) => path = "FALLBACK"

\* the sentences of a text: the non-empty pieces between runs of '.', '!'
\* and '?' in the trimmed text, and 1 where there is none
SentencesOf(t) ==
    LET s == Strip(t)
        starts == {i \in 1..Len(s) :
                     /\ ~IsTerminator(CharAt(s, i))
                     /\ (i = 1 \/ IsTerminator(CharAt(s, i - 1)))}
    IN  Max(1, Cardinality(starts))

\* C24: sentence_count of the returned metrics is at least 1, also for the
\* empty text, and is the number of sentences of the trimmed text split on
\* runs of '.', '!' and '?': one sentence ending in a terminator counts 1.
C24_SentenceCount ==
    (pc = "done" /\ result.kind = "returned") =>
        /\ result.value.metrics.sentence_count >= 1
        /\ result.value.metrics.sentence_count = SentencesOf(prompt)

(***************************************************************************)
(* CacheManager on its own: get and set called on one session's store      *)
(***************************************************************************)
CacheKeys == {generate_key("Write a story"), generate_key("Summarize the report.")}
CacheData == {Str("first"), Str("second")}

\* get(key), lines 20-32
CacheGet(key) ==
    /\ pc' = "got"
    /\ result' = [kind |-> "got", key |-> key, value |-> cache_get(cache_store, key)]
    /\ cache_store' = store_after_get(cache_store, key)
    /\ UNCHANGED <<prompt, external, parsed, validation, plausible, path,
                   ai_analysis, evaluation_history, now>>
    /\ UNCHANGED service_vars

\* set(key, data), lines 34-42
CacheSet(key, data) ==
    /\ pc' = "set"
    /\ result' = [kind |-> "set", key |-> key, data |-> data]
    /\ cache_store' = cache_set(cache_store, key, data)
    /\ UNCHANGED <<prompt, external, parsed, validation, plausible, path,
                   ai_analysis, evaluation_history, now>>
    /\ UNCHANGED service_vars

CacheInit == Init

CacheNext ==
    \/ \E key \in CacheKeys : CacheGet(key)
    \/ \E key \in CacheKeys, data \in CacheData : CacheSet(key, data)
    \/ TimePasses

CacheSpec == CacheInit /\ [][CacheNext]_vars

\* the entries of the store under a key
Stored(store, key) == SelectSeq(store, LAMBDA e : e.key = key)

\* C25: get returns the stored data while the entry's age is at most
\* ttl_hours and leaves the store as it is; for an older entry it returns
\* None and removes the entry; for an absent key it returns None and leaves
\* the store unchanged; after a set the key holds the data and the store
\* holds no expired entry.
C25_CacheTtl ==
    [][/\ (pc' = "got" /\ now' = now) =>
            LET held == Stored(cache_store, result'.key)
            IN  IF held = <<>>
                THEN ~result'.value.hit /\ cache_store' = cache_store
                ELSE IF now - held[1].timestamp <= ttl_hours
                THEN /\ result'.value.hit
                     /\ result'.value.data = held[1].data
                     /\ cache_store' = cache_store
                ELSE /\ ~result'.value.hit
                     /\ cache_store' = SelectSeq(cache_store,
                                          LAMBDA e : e.key # result'.key)
       /\ (pc' = "set" /\ now' = now) =>
            /\ \A i \in DOMAIN cache_store' :
                 now' - cache_store'[i].timestamp <= ttl_hours
            /\ Len(Stored(cache_store', result'.key)) = 1
            /\ Stored(cache_store', result'.key)[1].data = result'.data]_vars

\* get has returned the data of an entry whose age is exactly ttl_hours
C25_ServedAtTtl ==
    /\ pc = "got"
    /\ result.value.hit
    /\ \E i \in DOMAIN cache_store :
         /\ cache_store[i].key = result.key
         /\ now - cache_store[i].timestamp = ttl_hours

\* get has removed an entry older than ttl_hours and kept the other one
C25_ExpiredRemoved ==
    /\ pc = "got"
    /\ ~result.value.hit
    /\ now = 2 * Day
    /\ Len(cache_store) = 1
    /\ cache_store[1].key # result.key

(***************************************************************************)
(* GeminiService (src/core/ai_service.py): the rate limit of the requests  *)
(* sent.  Times are in seconds.                                            *)
(***************************************************************************)
min_request_interval == 2
MaxClock == 14
MaxSent == 2
MaxServices == 2

\* a service that sends at once
no_wait(current_time, last) == 0

\* _wait_for_rate_limit, lines 40-47: the time to sleep
wait_time(current_time, last) ==
    IF current_time - last < min_request_interval
    THEN min_request_interval - (current_time - last)
    ELSE 0

\* the calls of generate_response that have returned or raised
Finished == {i \in DOMAIN requests : requests[i].stage = "done"}

\* lines 53 and 40-47: generate_response is entered on the instance numbered
\* n, whose last_request_time is last: _wait_for_rate_limit reads the clock
\* and last_request_time and goes to sleep for wait_time, until wake.
\* earlier holds the calls that were over when this one was made.
Enters(n, last, by) ==
    /\ Len(requests) < MaxSent
    /\ clock + wait_time(clock, last) <= MaxClock
    /\ requests' = Append(requests,
                          [service |-> n, by |-> by, called |-> clock,
                           wake |-> clock + wait_time(clock, last),
                           stage |-> "sleeping", earlier |-> Finished,
                           outcome |-> "pending"])
    /\ UNCHANGED <<clock, sent>>

\* GeminiService.__init__, lines 17-20: a new instance
NewService ==
    /\ service < MaxServices
    /\ service' = service + 1
    /\ last_request_time' = Append(last_request_time, 0)
    /\ UNCHANGED <<clock, sent, requests>>
    /\ UNCHANGED <<pc, prompt, external, parsed, validation, plausible, path,
                   ai_analysis, result, cache_store, evaluation_history, now>>

\* generate_response, lines 51-53, called on the instance numbered n, which
\* may be in use by another call
GenerateResponse(n) ==
    /\ n \in 1..service
    /\ Enters(n, last_request_time[n], "caller")
    /\ UNCHANGED <<service, last_request_time>>
    /\ UNCHANGED <<pc, prompt, external, parsed, validation, plausible, path,
                   ai_analysis, result, cache_store, evaluation_history, now>>

\* _get_ai_analysis, lines 449-456: an analysis makes its own service
\* manager, which makes its own GeminiService, and calls generate_response
\* on it once
AnalysisRequest ==
    /\ service < MaxServices
    /\ service' = service + 1
    /\ last_request_time' = Append(last_request_time, 0)
    /\ Enters(service + 1, 0, "analysis")
    /\ UNCHANGED <<pc, prompt, external, parsed, validation, plausible, path,
                   ai_analysis, result, cache_store, evaluation_history, now>>

\* lines 47-49 and 53-68: time.sleep has returned, at wake or later;
\* last_request_time is set to the clock and the request goes out
Sends(i) ==
    /\ requests[i].stage = "sleeping"
    /\ clock >= requests[i].wake
    /\ last_request_time' =
          [last_request_time EXCEPT ![requests[i].service] = clock]
    /\ sent' = Append(sent, [request |-> i, time |-> clock,
                             called |-> requests[i].called,
                             service |-> requests[i].service,
                             by |-> requests[i].by])
    /\ requests' = [requests EXCEPT ![i].stage = "sent"]
    /\ UNCHANGED <<clock, service>>
    /\ UNCHANGED <<pc, prompt, external, parsed, validation, plausible, path,
                   ai_analysis, result, cache_store, evaluation_history, now>>

\* lines 68-88: generate_content, which blocked since the request went out,
\* returns the response (ok) or raises, and generate_response is left
Returns(i, ok) ==
    /\ requests[i].stage = "sent"
    /\ requests' = [requests EXCEPT
                       ![i].stage = "done",
                       ![i].outcome = IF ok THEN "returned" ELSE "raised"]
    /\ UNCHANGED <<clock, service, last_request_time, sent>>
    /\ UNCHANGED <<pc, prompt, external, parsed, validation, plausible, path,
                   ai_analysis, result, cache_store, evaluation_history, now>>

\* a second passes
ClockTick ==
    /\ clock < MaxClock
    /\ clock' = clock + 1
    /\ UNCHANGED <<service, last_request_time, sent, requests>>
    /\ UNCHANGED <<pc, prompt, external, parsed, validation, plausible, path,
                   ai_analysis, result, cache_store, evaluation_history, now>>

ServiceInit == Init

ServiceNext ==
    \/ NewService
    \/ \E n \in 1..MaxServices : GenerateResponse(n)
    \/ AnalysisRequest
    \/ \E i \in DOMAIN requests : Sends(i)
    \/ \E i \in DOMAIN requests, ok \in BOOLEAN : Returns(i, ok)
    \/ ClockTick

ServiceSpec == ServiceInit /\ [][ServiceNext]_vars

\* the call numbered j was made after the call numbered i was over
After(i, j) == i \in requests[j].earlier

\* the instance numbered n is used sequentially: none of its calls was made
\* while another of its calls was running
Sequential(n) ==
    \A i, j \in DOMAIN requests :
        (i < j /\ requests[i].service = n /\ requests[j].service = n)
        => After(i, j)

\* C26: on a GeminiService instance used sequentially, two
\* generate_response calls send their requests at least
\* min_request_interval apart, no request goes out before its call, and
\* last_request_time is the send time of the latest request of the
\* instance, also of one that failed.
C26_RateLimitedInstance ==
    \A n \in 1..service :
        Sequential(n) =>
            /\ \A j, k \in DOMAIN sent :
                 (j < k /\ sent[j].service = n /\ sent[k].service = n)
                 => /\ sent[k].time - sent[j].time >= min_request_interval
                    /\ sent[k].called >= sent[j].time
            /\ \A k \in DOMAIN sent :
                 sent[k].service = n => sent[k].time >= sent[k].called
            /\ (\E k \in DOMAIN sent : sent[k].service = n)
               => last_request_time[n] =
                     sent[CHOOSE k \in DOMAIN sent :
                            /\ sent[k].service = n
                            /\ \A j \in DOMAIN sent :
                                 sent[j].service = n => j <= k].time

\* the instance was called a second time one second after a request that
\* failed, and sent its request two seconds after the first
C26_SecondCallWaited ==
    /\ Len(sent) = 2
    /\ sent[1].service = sent[2].service
    /\ Sequential(sent[1].service)
    /\ requests[sent[1].request].outcome = "raised"
    /\ sent[2].called = sent[1].time + 1
    /\ sent[2].time = sent[1].time + min_request_interval

\* two calls on one instance at once: the second read last_request_time
\* while the first slept, and both requests went out at the same time
OverlappingCallsSentTogether ==
    /\ Len(sent) = 2
    /\ sent[1].service = sent[2].service
    /\ sent[1].time = sent[2].time

\* C27: the requests that comprehensive_analysis calls made one after the
\* other send to Gemini are at least 2 seconds apart.
C27_RateLimitedAcrossAnalyses ==
    \A j, k \in DOMAIN sent :
        (/\ sent[j].by = "analysis"
         /\ sent[k].by = "analysis"
         /\ After(sent[j].request, sent[k].request))
        => sent[k].time - sent[j].time >= min_request_interval

\* the step of the click on the analyze button
AnalyzeStep ==
    /\ NoRun
    /\ pc' \in {"not_run", "rejected", "loaded", "missed"}
    /\ now' = now

\* C28: once a result for a prompt is cached, an analyze action on the same
\* text within the 24-hour TTL takes that cached result and invokes neither
\* the analyzer nor the external service, up to the end of the run of main,
\* also when the cached result came from the fallback path.
C28_CachedPromptNotResubmitted ==
    [][/\ (/\ AnalyzeStep
           /\ \E i \in DOMAIN cache_store :
                /\ cache_store[i].key = generate_key(prompt')
                /\ now - cache_store[i].timestamp <= ttl_hours)
          => /\ pc' = "loaded"
             /\ external' = [kind |-> "none"]
             /\ path' = "none"
             /\ cache_store' = cache_store
             /\ \E i \in DOMAIN cache_store :
                  /\ cache_store[i].key = generate_key(prompt')
                  /\ result' = Returned(cache_store[i].data)
       /\ pc = "loaded"
          => /\ pc' \in {"loaded", "cached", "render_failed", "stopped"}
             /\ external' = [kind |-> "none"]
             /\ path' = "none"
             /\ cache_store' = cache_store
             /\ result' = result]_vars

\* a result of the fallback path, cached a day ago, has been served again
C28_FallbackResultServed ==
    /\ pc = "cached"
    /\ now = Day
    /\ external = [kind |-> "none"]
    /\ result.value.confidence_level = Num(RuleBasedConfidence)
    /\ \E i \in DOMAIN cache_store :
         /\ cache_store[i].key = generate_key(prompt)
         /\ cache_store[i].timestamp = 0
         /\ cache_store[i].data = result.value
    /\ Len(evaluation_history) = 2

\* C29: for every prompt, what the heuristic analyzer returns passes the
\* structural validator of external responses: the four keys, the six
\* scores as numbers from 1 to 10, the three lists, a confidence from 0
\* to 1.
C29_HeuristicPassesValidator ==
    pc = "analyzed" =>
        /\ _validate_ai_response(ai_analysis).outcome = "true"
        /\ _validate_ai_response(ai_analysis).response = ai_analysis

\* the heuristic analysis of a prompt whose clarity score is held at the
\* lower end of the scale
C29_LowestScoreValidated ==
    /\ pc = "analyzed"
    /\ Get(Get(ai_analysis, "scores", None), "clarity", None) = Num(1000)
    /\ result.clarity = 1000
    /\ Get(ai_analysis, "confidence", None) = Num(RuleBasedConfidence)


\* the step that ends a run of main in which a result was obtained
RunEnds == pc \in {"loaded", "computed"} /\ pc' \notin RunPositions

\* the entry of the history for the result of the run
EntryOfRun == [prompt |-> prompt, result |-> result.value, timestamp |-> now]

\* C30: an analyze action that yields a result, freshly computed or served
\* from the cache, appends exactly one entry for it at the end of
\* evaluation_history and leaves the earlier entries as they were; an analyze
\* action whose prompt fails validation or whose analysis raises leaves
\* evaluation_history unchanged.
C30_HistoryGrowsByOne ==
    [][IF RunEnds
       THEN evaluation_history' = Append(evaluation_history, EntryOfRun)
       ELSE pc' # "cleared" => evaluation_history' = evaluation_history]_vars

\* the same for the runs of main that reach line 106: all but those in
\* which render_evaluation_results raises or the run is stopped
C30_HistoryGrowsWhenRendered ==
    [][IF RunEnds /\ pc' \notin {"render_failed", "stopped"}
       THEN evaluation_history' = Append(evaluation_history, EntryOfRun)
       ELSE pc' # "cleared" => evaluation_history' = evaluation_history]_vars

\* the analysis returned a day after the click: the result is cached and
\* entered in the history with the time of its return, and the entry of
\* the day before has been cleaned out of the cache
LateResultStored ==
    /\ pc = "analyzed"
    /\ now = MaxNow
    /\ Len(evaluation_history) = 2
    /\ evaluation_history[1].timestamp = 0
    /\ evaluation_history[2].timestamp = MaxNow
    /\ Len(cache_store) = 1
    /\ cache_store[1].key = generate_key(prompt)
    /\ cache_store[1].timestamp = MaxNow

\* a run of main was stopped at line 85: cache.get has deleted the expired
\* entry, the analyzer was not called and nothing was sent or cached
StoppedBeforeAnalysis ==
    /\ pc = "stopped"
    /\ now = MaxNow
    /\ external = [kind |-> "none"]
    /\ result = NoResult
    /\ cache_store = <<>>
    /\ Len(evaluation_history) = 1
    /\ evaluation_history[1].prompt = prompt

\* a run of main was stopped after line 89: its result is in the cache and
\* not in the history, though it renders
StoppedBeforeAppend ==
    /\ pc = "stopped"
    /\ result.kind = "returned"
    /\ Renders(result.value)
    /\ \E i \in DOMAIN cache_store : cache_store[i].data = result.value
    /\ evaluation_history = <<>>

\* a result was returned and stored in the cache, its display raised, and
\* the history has no entry for it
C30_ResultWithoutEntry ==
    /\ pc = "render_failed"
    /\ result.kind = "returned"
    /\ \E i \in DOMAIN cache_store : cache_store[i].data = result.value
    /\ \A k \in DOMAIN evaluation_history :
         evaluation_history[k].result # result.value

=============================================================================
